---- MODULE Spec2Model ----
(***************************************************************************)
(* A model of nenupy/observation/parset.py: the typed property store, the  *)
(* parset decoder, the pointing centre resolver, the range compressors and *)
(* the receiver parameter parser.                                          *)
(*                                                                         *)
(* Python strings are TLA+ strings; TLC evaluates Len, \o and SubSeq on    *)
(* them, and every string function of the code is built from these.        *)
(* A typed value is a record [type |-> ..., val |-> ...]; a function that  *)
(* may raise yields [val |-> <result>] or [raised |-> <exception class>].  *)
(* A statement sequence is written as a chain of operators, each taking    *)
(* the values computed so far as parameters.                               *)
(***************************************************************************)
EXTENDS Integers, Sequences, FiniteSets, TLC

VARIABLES
    mapping,        \* _ParsetProperty.mapping of the store under test
    call,           \* the last operation applied to that store
    file,           \* the lines of the parset file, each with its newline
    lineno,         \* number of lines consumed by _decodeParset
    dicoName,       \* local of _decodeParset (survives from line to line)
    content,        \* local of _decodeParset (survives from line to line)
    observation,    \* Parset.observation
    output,         \* Parset.output
    anabeams,       \* Parset.anabeams      : index -> store
    digibeams,      \* Parset.digibeams     : index -> store
    phase_centers,  \* Parset.phase_centers : index -> store
    decode_pc,      \* "reading" | "loaded" | the exception that ended it
    property,       \* the entity store handed to _get_pointing_center_dict
    center,         \* what _get_pointing_center_dict returned (or raised)
    coord_calls,    \* the requests made to the coordinate service
    subband_list,   \* the sequence handed to the range compressors
    frequency,      \* what _get_frequency_dict returned (or raised)
    miniarray,      \* what _get_miniarray_dict returned (or raised)
    digibeam,       \* the beam store handed to _pulsar_setting
    receiver,       \* what _pulsar_setting returned (or raised)
    beam,           \* the beam store handed to _JsonEntry.add_pointing
    entry_output,   \* _JsonEntry.output
    parset_version, \* Parset.version, a tuple of integers
    setting,        \* pointing["receiver"] (or what was raised)
    parset,         \* the decoded Parset that to_json reads
    document,       \* what Parset.to_json returned (or raised)
    user,           \* the ParsetUser hierarchy
    user_call,      \* the last operation on the hierarchy and its outcome
    data_base,      \* the ParsetDataBase: the parset registered, the rows submitted
    db_pc,          \* position of add_to_database in its body, or how it ended
    entry,          \* the _JsonEntry under construction
    entry_call      \* the last call on the entry and what it returned

storeVars    == <<mapping, call>>
decodeVars   == <<file, lineno, dicoName, content, observation, output,
                  anabeams, digibeams, phase_centers, decode_pc>>
resolveVars  == <<property, center, coord_calls>>
compressVars == <<subband_list, frequency, miniarray>>
pulsarVars   == <<digibeam, receiver>>
receiverVars == <<beam, entry_output, parset_version, setting>>
jsonVars     == <<parset, document>>
writerVars   == <<user, user_call>>
databaseVars == <<data_base, db_pc>>
entryVars    == <<entry, entry_call>>
vars == <<storeVars, decodeVars, resolveVars, compressVars, pulsarVars,
          receiverVars, jsonVars, writerVars, databaseVars, entryVars>>

-----------------------------------------------------------------------------
(* Bounds of the model *)

MaxElems == 2      \* elements of a bracket-delimited raw value
MaxLines == 3      \* lines of a parset file
AngleDigits == 1   \* decimals kept of an angle: angles are multiples of 10^-AngleDigits deg

-----------------------------------------------------------------------------
(* Python str primitives *)

\* s[i-1:i]: the character at position i, '' beyond the ends
Char(s, i) == IF i \in 1..Len(s) THEN SubSeq(s, i, i) ELSE ""

\* s[i-1:]
From(s, i) == SubSeq(s, i, Len(s))

RECURSIVE FindFrom(_, _, _)
FindFrom(s, sub, i) ==
    IF i + Len(sub) - 1 > Len(s) THEN 0
    ELSE IF SubSeq(s, i, i + Len(sub) - 1) = sub THEN i
    ELSE FindFrom(s, sub, i + 1)

\* str.find, 1-based; 0 when absent
Find(s, sub) == FindFrom(s, sub, 1)

\* `sub in s`
Contains(s, sub) == Find(s, sub) # 0

StartsWith(s, p) == Len(s) >= Len(p) /\ SubSeq(s, 1, Len(p)) = p

EndsWith(s, p) == Len(s) >= Len(p) /\ SubSeq(s, Len(s) - Len(p) + 1, Len(s)) = p

RECURSIVE Replace(_, _, _)
ReplaceAt(s, old, new, i) ==
    IF i = 0 THEN s
    ELSE SubSeq(s, 1, i - 1) \o new \o Replace(From(s, i + Len(old)), old, new)

\* str.replace(old, new)
Replace(s, old, new) == ReplaceAt(s, old, new, Find(s, old))

RECURSIVE Split(_, _)
SplitAt(s, sep, i) ==
    IF i = 0 THEN <<s>>
    ELSE <<SubSeq(s, 1, i - 1)>> \o Split(From(s, i + Len(sep)), sep)

\* str.split(sep)
Split(s, sep) == SplitAt(s, sep, Find(s, sep))

Split1At(s, sep, i) ==
    IF i = 0 THEN <<s>> ELSE <<SubSeq(s, 1, i - 1), From(s, i + Len(sep))>>

\* str.split(sep, 1)
Split1(s, sep) == Split1At(s, sep, Find(s, sep))

Whitespace == {" ", "\n", "\t"}

RECURSIVE LStrip(_)
LStrip(s) == IF Char(s, 1) \in Whitespace THEN LStrip(From(s, 2)) ELSE s

RECURSIVE RStrip(_)
RStrip(s) ==
    IF Char(s, Len(s)) \in Whitespace THEN RStrip(SubSeq(s, 1, Len(s) - 1)) ELSE s

Strip(s) == LStrip(RStrip(s))

Word(cur) == IF cur = "" THEN <<>> ELSE <<cur>>

RECURSIVE SplitWsFrom(_, _)
SplitWsFrom(s, cur) ==
    IF s = "" THEN Word(cur)
    ELSE IF Char(s, 1) \in Whitespace THEN Word(cur) \o SplitWsFrom(From(s, 2), "")
    ELSE SplitWsFrom(From(s, 2), cur \o Char(s, 1))

\* str.split() on runs of whitespace
SplitWs(s) == SplitWsFrom(s, "")

UpperAlpha == "ABCDEFGHIJKLMNOPQRSTUVWXYZ"
LowerAlpha == "abcdefghijklmnopqrstuvwxyz"

\* the lower-case letter of each upper-case letter
LowerOf == [c \in {Char(UpperAlpha, i) : i \in 1..Len(UpperAlpha)} |->
               Char(LowerAlpha, Find(UpperAlpha, c))]

LowerChar(c) == IF c \in DOMAIN LowerOf THEN LowerOf[c] ELSE c

RECURSIVE Lower(_)
\* str.lower
Lower(s) == IF s = "" THEN "" ELSE LowerChar(Char(s, 1)) \o Lower(From(s, 2))

DigitChars == "0123456789"

\* the value of each digit
DigitOf == [c \in {Char(DigitChars, i) : i \in 1..Len(DigitChars)} |->
               Find(DigitChars, c) - 1]

\* str.isdigit
IsDigit(s) == Len(s) > 0 /\ \A i \in 1..Len(s) : Char(s, i) \in DOMAIN DigitOf

RECURSIVE DecVal(_)
\* the number a string of digits writes
DecVal(s) ==
    IF s = "" THEN 0
    ELSE 10 * DecVal(SubSeq(s, 1, Len(s) - 1)) + DigitOf[Char(s, Len(s))]

Raise(exc) == [raised |-> exc]
Raised(r) == "raised" \in DOMAIN r

Unsigned(body) == IF IsDigit(body) THEN [val |-> DecVal(body)] ELSE Raise("ValueError")

Negated(r) == IF Raised(r) THEN r ELSE [val |-> 0 - r.val]

SignedInt(t) ==
    IF StartsWith(t, "-") THEN Negated(Unsigned(From(t, 2)))
    ELSE IF StartsWith(t, "+") THEN Unsigned(From(t, 2))
    ELSE Unsigned(t)

\* int(s): surrounding whitespace and one sign are accepted
ToInt(s) == SignedInt(Strip(s))

RECURSIVE Pow10(_)
Pow10(n) == IF n = 0 THEN 1 ELSE 10 * Pow10(n - 1)

RECURSIVE Normal(_, _)
\* the decimal m * 10^-e without trailing zeroes in its fraction
Normal(m, e) ==
    IF e > 0 /\ m % 10 = 0 THEN Normal(m \div 10, e - 1) ELSE [mant |-> m, exp |-> e]

Decimal(ip, fp) ==
    IF (ip = "" \/ IsDigit(ip)) /\ (fp = "" \/ IsDigit(fp)) /\ (ip # "" \/ fp # "")
    THEN [val |-> Normal(DecVal(ip) * Pow10(Len(fp)) + DecVal(fp), Len(fp))]
    ELSE Raise("ValueError")

DecimalParts(p) == Decimal(p[1], IF Len(p) = 2 THEN p[2] ELSE "")

UnsignedFloat(body) == DecimalParts(Split1(body, "."))

NegatedFloat(r) ==
    IF Raised(r) THEN r ELSE [val |-> [mant |-> 0 - r.val.mant, exp |-> r.val.exp]]

SignedFloat(t) ==
    IF StartsWith(t, "-") THEN NegatedFloat(UnsignedFloat(From(t, 2)))
    ELSE IF StartsWith(t, "+") THEN UnsignedFloat(From(t, 2))
    ELSE UnsignedFloat(t)

\* float(s) on decimal literals: [sign] digits [. digits], one side of the
\* point may be empty; the value is mant * 10^-exp
ToFloat(s) == SignedFloat(Strip(s))

-----------------------------------------------------------------------------
(* astropy.time.Time on a string: the ISO forms the parsets use,           *)
(* YYYY-MM-DD{T| }HH:MM:SS with an optional trailing Z.  Any other string  *)
(* is a ValueError.  The value is <<year, month, day, hour, minute, sec>>. *)

TimeFields(t) ==
    <<SubSeq(t, 1, 4), SubSeq(t, 6, 7), SubSeq(t, 9, 10),
      SubSeq(t, 12, 13), SubSeq(t, 15, 16), SubSeq(t, 18, 19)>>

TimeValue(n) ==
    IF n[2] \in 1..12 /\ n[3] \in 1..31 /\ n[4] \in 0..23 /\ n[5] \in 0..59 /\ n[6] \in 0..60
    THEN [val |-> n] ELSE Raise("ValueError")

TimeOfFields(f) ==
    IF \A i \in 1..6 : IsDigit(f[i])
    THEN TimeValue([i \in 1..6 |-> DecVal(f[i])]) ELSE Raise("ValueError")

TimeOfString(t) ==
    IF /\ Len(t) = 19
       /\ Char(t, 5) = "-" /\ Char(t, 8) = "-"
       /\ Char(t, 11) \in {"T", " "}
       /\ Char(t, 14) = ":" /\ Char(t, 17) = ":"
    THEN TimeOfFields(TimeFields(t)) ELSE Raise("ValueError")

Time(s) == TimeOfString(IF EndsWith(s, "Z") THEN SubSeq(s, 1, Len(s) - 1) ELSE s)

-----------------------------------------------------------------------------
(* _ParsetProperty *)

Typed(t, v) == [type |-> t, val |-> v]

RECURSIVE Range(_, _)
\* list(range(a, b))
Range(a, b) == IF a >= b THEN <<>> ELSE <<Typed("int", a)>> \o Range(a + 1, b)

\* RangeBetween with the upper bound left out: range(lo, hi)
RangeBetween_Exclusive(lo, hi) ==
    IF Raised(lo) THEN lo
    ELSE IF Raised(hi) THEN hi
    ELSE [val |-> Range(lo.val, hi.val)]

\* list(range(int(subBandSart), int(subBanStop) + 1))
RangeBetween(lo, hi) ==
    IF Raised(lo) THEN lo
    ELSE IF Raised(hi) THEN hi
    ELSE [val |-> Range(lo.val, hi.val + 1)]

\* subBandSart, subBanStop = val[i].split('..'): two names, two parts
RangeOf(b) == IF Len(b) # 2 THEN Raise("ValueError") ELSE RangeBetween(ToInt(b[1]), ToInt(b[2]))

\* try: Time(...) except ValueError: the string as it is
TimeOrString(e, t) == IF Raised(t) THEN Typed("str", e) ELSE Typed("time", t.val)

\* one element of a bracket-delimited value: the values it appends, or the
\* exception it raises
CoerceElement(e) ==
    IF Contains(e, "..") THEN RangeOf(Split(e, ".."))
    ELSE IF Contains(e, ":") THEN [val |-> <<TimeOrString(e, Time(Strip(e)))>>]
    ELSE IF IsDigit(e) THEN [val |-> <<Typed("int", DecVal(e))>>]
    ELSE [val |-> <<Typed("str", e)>>]

RECURSIVE CoerceList(_, _)
Extend(val, acc, r) == IF Raised(r) THEN r ELSE CoerceList(Tail(val), acc \o r.val)

\* the loop over the elements, left to right; the first exception ends it
CoerceList(val, acc) ==
    IF val = <<>> THEN [val |-> Typed("list", acc)]
    ELSE Extend(val, acc, CoerceElement(Head(val)))

TrueTokens  == {"on", "enable", "true"}
FalseTokens == {"off", "disable", "false"}

\* float(value) * u.deg
AngleOf(f) == IF Raised(f) THEN f ELSE [val |-> Typed("angle", f.val)]

\* CoerceChain with the digit test moved before the angle test
CoerceChain_DigitsBeforeAngle(key, value) ==
    IF StartsWith(value, "[") /\ EndsWith(value, "]")
    THEN CoerceList(Split(SubSeq(value, 2, Len(value) - 1), ","), <<>>)
    ELSE IF Lower(value) \in TrueTokens THEN [val |-> Typed("bool", TRUE)]
    ELSE IF Lower(value) \in FalseTokens THEN [val |-> Typed("bool", FALSE)]
    ELSE IF IsDigit(value) THEN [val |-> Typed("int", DecVal(value))]
    ELSE IF Contains(Lower(key), "angle") THEN AngleOf(ToFloat(value))
    ELSE IF Contains(value, ":") THEN [val |-> TimeOrString(value, Time(Strip(value)))]
    ELSE [val |-> Typed("str", value)]

\* the if/elif chain of __setitem__ on the cleaned value
CoerceChain(key, value) ==
    IF StartsWith(value, "[") /\ EndsWith(value, "]")
    THEN CoerceList(Split(SubSeq(value, 2, Len(value) - 1), ","), <<>>)
    ELSE IF Lower(value) \in TrueTokens THEN [val |-> Typed("bool", TRUE)]
    ELSE IF Lower(value) \in FalseTokens THEN [val |-> Typed("bool", FALSE)]
    ELSE IF Contains(Lower(key), "angle") THEN AngleOf(ToFloat(value))
    ELSE IF IsDigit(value) THEN [val |-> Typed("int", DecVal(value))]
    ELSE IF Contains(value, ":") THEN [val |-> TimeOrString(value, Time(Strip(value)))]
    ELSE [val |-> Typed("str", value)]

\* the raw string with its newlines and double quotes removed
Cleaned(value) == Replace(Replace(value, "\n", ""), "\"", "")

Coerce(key, value) == CoerceChain(key, Cleaned(value))

Store(m, key, v) == [k \in DOMAIN m \cup {key} |-> IF k = key THEN v ELSE m[k]]

\* self.mapping[key] = value, which an exception raised before it skips
Assign(m, key, r) == IF Raised(r) THEN r ELSE [val |-> Store(m, key, r.val)]

\* store[key] = value: the new mapping, or the exception
__setitem__(m, key, value) == Assign(m, key, Coerce(key, value))

EmptyStore == <<>>

-----------------------------------------------------------------------------
(* Idle values: what a component's variables hold in a specification that  *)
(* exercises another component.                                            *)

IdleStore    == mapping = EmptyStore /\ call = [op |-> "idle"]
IdleDecode   == /\ file = <<>> /\ lineno = 0
                /\ dicoName = <<>> /\ content = <<>>
                /\ observation = EmptyStore /\ output = EmptyStore
                /\ anabeams = <<>> /\ digibeams = <<>> /\ phase_centers = <<>>
                /\ decode_pc = "idle"
IdleResolve  == property = EmptyStore /\ center = [op |-> "idle"] /\ coord_calls = <<>>
IdleCompress == subband_list = <<>> /\ frequency = [op |-> "idle"] /\ miniarray = [op |-> "idle"]
IdlePulsar   == digibeam = EmptyStore /\ receiver = [op |-> "idle"]
IdleReceiver == /\ beam = EmptyStore /\ entry_output = EmptyStore
                /\ parset_version = <<>> /\ setting = [op |-> "idle"]
IdleJson     == parset = [op |-> "idle"] /\ document = [op |-> "idle"]
IdleWriter   == user = [op |-> "idle"] /\ user_call = [op |-> "idle"]
IdleDatabase == data_base = [op |-> "idle"] /\ db_pc = [at |-> "idle"]
IdleEntry    == entry = [op |-> "idle"] /\ entry_call = [op |-> "idle"]

-----------------------------------------------------------------------------
(* The property store on its own: a store is constructed from some data    *)
(* (the constructor sets each pair through __setitem__), then one item is  *)
(* set.                                                                    *)

Keys == {"title", "angle1", "ANGLE2"}

ScalarRaws ==
    {"on", "Enable", "FALSE", "12", "1.5", "-3", "abc", "12:30",
     "2020-01-01T00:00:00Z", "\"on\"\n", "\"12\"", ""}

ListElems ==
    {"3..5", "5..3", "3..5..7", "a..5", " 3.. 5", "1:..2", "7", "x7",
     "12:30", "2020-01-01 00:00:00", "on", ""}

RECURSIVE Join(_, _)
Join(es, sep) ==
    IF Len(es) = 0 THEN ""
    ELSE IF Len(es) = 1 THEN es[1]
    ELSE es[1] \o sep \o Join(Tail(es), sep)

ElemSeqs == UNION {[1..n -> ListElems] : n \in 1..MaxElems}

ListRaws == {"[" \o Join(es, ",") \o "]" : es \in ElemSeqs} \cup {"[]", "[3..5,7]\n"}

Raws == ScalarRaws \cup ListRaws

SeedData == {<<>>, <<"title", "abc">>, <<"angle1", "12">>, <<"title", "[7,3..5]">>}

\* _ParsetProperty(data): update() sets each pair in turn
__init__(data) ==
    IF data = <<>> THEN EmptyStore ELSE __setitem__(EmptyStore, data[1], data[2]).val

InitStore ==
    /\ \E data \in SeedData : mapping = __init__(data)
    /\ call = [op |-> "init"]
    /\ IdleDecode /\ IdleResolve /\ IdleCompress /\ IdlePulsar
    /\ IdleReceiver /\ IdleJson /\ IdleWriter
    /\ IdleDatabase /\ IdleEntry

\* store[key] = value, r being what __setitem__ yields
SetItemTo(key, value, r) ==
    /\ mapping' = IF Raised(r) THEN mapping ELSE r.val
    /\ call' = [op |-> "set", key |-> key, value |-> value,
                raised |-> Raised(r), before |-> mapping]

SetItem ==
    /\ call.op = "init"
    /\ \E key \in Keys, value \in Raws :
         SetItemTo(key, value, __setitem__(mapping, key, value))
    /\ UNCHANGED <<decodeVars, resolveVars, compressVars, pulsarVars,
                   receiverVars, jsonVars, writerVars,
                   databaseVars, entryVars>>

NextStore == SetItem

SpecStore == InitStore /\ [][NextStore]_vars

-----------------------------------------------------------------------------
(* Claims about the property store (SpecStore) *)

Bracketed(v) == StartsWith(v, "[") /\ EndsWith(v, "]")

\* the number of the first rule of the stated order that applies
RuleOf(key, v) ==
    IF Bracketed(v) THEN 1
    ELSE IF Lower(v) \in {"on", "enable", "true", "off", "disable", "false"} THEN 2
    ELSE IF Contains(Lower(key), "angle") THEN 3
    ELSE IF IsDigit(v) THEN 4
    ELSE IF Contains(v, ":") THEN 5
    ELSE 6

TypesOfRule(r) ==
    CASE r = 1 -> {"list"}
      [] r = 2 -> {"bool"}
      [] r = 3 -> {"angle"}
      [] r = 4 -> {"int"}
      [] r = 5 -> {"time", "str"}
      [] r = 6 -> {"str"}

\* C2: a set(key, raw) that stores a value stores the type of the earliest
\* applicable rule in the order list, boolean token, angle key, digits,
\* colon, string, computed on the raw string without newlines and double
\* quotes; this is so whether or not the key was already present, and no
\* other key of the store changes.
C2_CoercionPrecedence ==
    (call.op = "set" /\ ~call.raised) =>
        LET v    == Cleaned(call.value)
            rule == RuleOf(call.key, v)
            got  == mapping[call.key]
        IN  /\ got.type \in TypesOfRule(rule)
            /\ rule = 2 => got.val = (Lower(v) \in {"on", "enable", "true"})
            /\ rule = 4 => got.val = DecVal(v)
            /\ rule = 5 => (got.type = "time" <=> ~Raised(Time(Strip(v))))
            /\ got.type = "str" => got.val = v
            /\ \A k \in DOMAIN call.before \ {call.key} :
                   k \in DOMAIN mapping /\ mapping[k] = call.before[k]

\* C2 witness: key 'angle1', which held an angle, is set again to 'on' and
\* now holds a boolean
C2_Witness ==
    /\ call.op = "set" /\ ~call.raised
    /\ call.key = "angle1" /\ call.value = "on"
    /\ "angle1" \in DOMAIN call.before /\ call.before["angle1"].type = "angle"
    /\ mapping["angle1"] = Typed("bool", TRUE)

RECURSIVE Concat(_)
Concat(ss) == IF ss = <<>> THEN <<>> ELSE Head(ss) \o Concat(Tail(ss))

IsInteger(s) == ~Raised(ToInt(s))

MalformedRange(e) ==
    /\ Contains(e, "..")
    /\ \/ Len(Split(e, "..")) # 2
       \/ \E i \in 1..Len(Split(e, "..")) : ~IsInteger(Split(e, "..")[i])

\* what a well-formed element stands for
Expansion(e) ==
    IF Contains(e, "..")
    THEN LET a == ToInt(Split(e, "..")[1]).val
             b == ToInt(Split(e, "..")[2]).val
         IN  [i \in 1..(IF b >= a THEN b - a + 1 ELSE 0) |-> Typed("int", a + i - 1)]
    ELSE IF Contains(e, ":") /\ Raised(Time(Strip(e))) THEN <<Typed("str", e)>>
    ELSE IF Contains(e, ":") THEN <<Typed("time", Time(Strip(e)).val)>>
    ELSE IF ~IsDigit(e) THEN <<Typed("str", e)>>
    ELSE <<Typed("int", DecVal(e))>>

\* C3: for a bracket-delimited raw value, set fails exactly when an element
\* is a malformed integer range (a non-integer bound, or more than one '..'),
\* and then the store is what it was; otherwise the stored list is the
\* elements in order, each '..' element replaced in place by its inclusive
\* integer range, an element with ':' that is no timestamp and a non-digit
\* element kept as their raw strings.
C3_ListExpansion ==
    (call.op = "set" /\ Bracketed(Cleaned(call.value))) =>
        LET v     == Cleaned(call.value)
            elems == Split(SubSeq(v, 2, Len(v) - 1), ",")
        IN  /\ call.raised <=> \E i \in 1..Len(elems) : MalformedRange(elems[i])
            /\ call.raised => mapping = call.before
            /\ ~call.raised =>
                   mapping[call.key] =
                       Typed("list", Concat([i \in 1..Len(elems) |-> Expansion(elems[i])]))

\* C3 witness: a list whose second element is a malformed range is set on a
\* key that already holds a value, and the value is still there
C3_Witness ==
    /\ call.op = "set" /\ call.raised
    /\ call.key = "title" /\ call.value = "[3..5,a..5]"
    /\ "title" \in DOMAIN call.before
    /\ mapping["title"] = Typed("str", "abc")

-----------------------------------------------------------------------------
(* Parset._decodeParset *)

RECURSIVE DigitRun(_, _)
\* the longest run of digits of s that starts at position i
DigitRun(s, i) ==
    IF Char(s, i) \in DOMAIN DigitOf
    THEN Char(s, i) \o DigitRun(s, i + 1) ELSE ""

RECURSIVE SearchGroupFrom(_, _)
MatchAt(s, i, digits) ==
    IF Char(s, i) = "[" /\ Char(s, i + 1 + Len(digits)) = "]"
    THEN [val |-> digits] ELSE SearchGroupFrom(s, i + 1)

\* re.search(r'\[(\d*)\]', s).group(1), looking from position i on; no
\* match is None, which has no group (AttributeError)
SearchGroupFrom(s, i) ==
    IF i > Len(s) THEN Raise("AttributeError") ELSE MatchAt(s, i, DigitRun(s, i + 1))

IntOfGroup(m) == IF Raised(m) THEN m ELSE ToInt(m.val)

\* int(re.search(r'\[(\d*)\]', s).group(1)); an empty group is no integer
SearchIndex(s) == IntOfGroup(SearchGroupFrom(s, 1))

RECURSIVE IntToStr(_)
\* str(n) for n >= 0
IntToStr(n) ==
    IF n < 10 THEN Char(DigitChars, n + 1)
    ELSE IntToStr(n \div 10) \o Char(DigitChars, (n % 10) + 1)

PutEntity(entities, idx, r) ==
    IF Raised(r) THEN r
    ELSE [val |-> [i \in DOMAIN entities \cup {idx} |-> IF i = idx THEN r.val ELSE entities[i]]]

\* self.<entities>[idx][key] = value
SetInEntity(entities, idx, base, key, value) ==
    IF Raised(base) THEN base
    ELSE PutEntity(entities, idx, __setitem__(base.val, key, value))

\* the entity is created, and tagged with its index, on first encounter
EntityAt(entities, idx, idxKey) ==
    IF idx \in DOMAIN entities THEN [val |-> entities[idx]]
    ELSE __setitem__(EmptyStore, idxKey, IntToStr(idx))

SetEntityAt(entities, idx, idxKey, key, value) ==
    IF Raised(idx) THEN idx
    ELSE SetInEntity(entities, idx.val, EntityAt(entities, idx.val, idxKey), key, value)

\* the body of an `elif line.startswith(<section>)` branch with an index
SetEntity(entities, name, idxKey, key, value) ==
    SetEntityAt(entities, SearchIndex(name), idxKey, key, value)

\* The locals dicoName and content are <<>> while unbound and <<string>>
\* once assigned.  st holds them with the five entity stores.
Unbound == <<>>

Put(st, field, r) == IF Raised(r) THEN r ELSE [val |-> [st EXCEPT ![field] = r.val]]

\* the chain `if line.startswith('Observation') ... elif ...`
Dispatch(st, line, key, value) ==
    IF StartsWith(line, "Observation")
    THEN Put(st, "observation", __setitem__(st.observation, key, value))
    ELSE IF StartsWith(line, "Output")
    THEN Put(st, "output", __setitem__(st.output, key, value))
    ELSE IF StartsWith(line, "AnaBeam")
    THEN Put(st, "anabeams", SetEntity(st.anabeams, st.dicoName[1], "anaIdx", key, value))
    ELSE IF StartsWith(line, "Beam")
    THEN Put(st, "digibeams", SetEntity(st.digibeams, st.dicoName[1], "digiIdx", key, value))
    ELSE IF StartsWith(line, "PhaseCenter")
    THEN Put(st, "phase_centers",
             SetEntity(st.phase_centers, st.dicoName[1], "pcIdx", key, value))
    ELSE [val |-> st]

\* key, value = content.split('=', 1): two names, two parts
KeyValue(st, line, kv) ==
    IF Len(kv) # 2 THEN Raise("ValueError") ELSE Dispatch(st, line, kv[1], kv[2])

\* content is read, bound or not
ReadContent(st, line) ==
    IF st.content = Unbound THEN Raise("UnboundLocalError")
    ELSE KeyValue(st, line, Split1(st.content[1], "="))

\* try: dicoName, content = line.split('.', 1)
\* except ValueError: pass  -- the locals keep what they held
SplitSection(st, parts) ==
    IF Len(parts) = 2
    THEN [st EXCEPT !.dicoName = <<parts[1]>>, !.content = <<parts[2]>>]
    ELSE st

\* one pass of the while loop, on `line`: the state after it, or the
\* exception that leaves _decodeParset
DecodeLine(st, line) == ReadContent(SplitSection(st, Split1(line, ".")), line)

NoEntities == <<>>

Lines ==
    {"Observation.title=abc\n",
     "Output.xst_userfile=on\n",
     "AnaBeam[0].angle1=12\n",
     "Beam[1].noBeam=0\n",
     "PhaseCenter[0].target=x\n",
     "\n",
     "# comment\n",
     "Observation=abc\n",
     "Beam[0]title=abc\n",
     "Output.title\n"}

Files == UNION {[1..n -> Lines] : n \in 0..MaxLines}

DecodeState ==
    [dicoName |-> dicoName, content |-> content, observation |-> observation,
     output |-> output, anabeams |-> anabeams, digibeams |-> digibeams,
     phase_centers |-> phase_centers]

\* Parset(parset): the stores are empty and the file is about to be read
InitDecode ==
    /\ file \in Files
    /\ lineno = 0
    /\ dicoName = Unbound /\ content = Unbound
    /\ observation = EmptyStore /\ output = EmptyStore
    /\ anabeams = NoEntities /\ digibeams = NoEntities /\ phase_centers = NoEntities
    /\ decode_pc = "reading"
    /\ IdleStore /\ IdleResolve /\ IdleCompress /\ IdlePulsar
    /\ IdleReceiver /\ IdleJson /\ IdleWriter
    /\ IdleDatabase /\ IdleEntry

\* the pass is over: the next line is read, or the exception leaves
AfterLine(r) ==
    IF Raised(r)
    THEN /\ decode_pc' = r.raised
         /\ UNCHANGED <<lineno, dicoName, content, observation, output,
                        anabeams, digibeams, phase_centers>>
    ELSE /\ lineno' = lineno + 1
         /\ dicoName' = r.val.dicoName
         /\ content' = r.val.content
         /\ observation' = r.val.observation
         /\ output' = r.val.output
         /\ anabeams' = r.val.anabeams
         /\ digibeams' = r.val.digibeams
         /\ phase_centers' = r.val.phase_centers
         /\ UNCHANGED decode_pc

\* one pass of the loop `while line:` on the next line of the file
ReadLine ==
    /\ decode_pc = "reading"
    /\ lineno < Len(file)
    /\ AfterLine(DecodeLine(DecodeState, file[lineno + 1]))
    /\ UNCHANGED <<file, storeVars, resolveVars, compressVars, pulsarVars,
                   receiverVars, jsonVars, writerVars,
                   databaseVars, entryVars>>

\* readline() returns '' at the end of the file and the loop ends
EndOfFile ==
    /\ decode_pc = "reading"
    /\ lineno = Len(file)
    /\ decode_pc' = "loaded"
    /\ UNCHANGED <<file, lineno, dicoName, content, observation, output,
                   anabeams, digibeams, phase_centers>>
    /\ UNCHANGED <<storeVars, resolveVars, compressVars, pulsarVars,
                   receiverVars, jsonVars, writerVars,
                   databaseVars, entryVars>>

NextDecode == ReadLine \/ EndOfFile

SpecDecode == InitDecode /\ [][NextDecode]_vars

-----------------------------------------------------------------------------
(* Claims about the decoder (SpecDecode) *)

Stores == <<observation, output, anabeams, digibeams, phase_centers>>

Blank(line) == Strip(line) = ""

LacksDotOrEquals(line) == ~Contains(line, ".") \/ ~Contains(line, "=")

\* C1: a blank line, or a line without '.' or without '=', is skipped:
\* decoding goes on to the next line and every entity store is left as it
\* was, wherever in the file the line stands.
C1_MalformedLineSkipped ==
    [][(/\ decode_pc = "reading"
        /\ lineno < Len(file)
        /\ Blank(file[lineno + 1]) \/ LacksDotOrEquals(file[lineno + 1]))
       => (/\ decode_pc' = "reading"
           /\ lineno' = lineno + 1
           /\ Stores' = Stores)]_vars

-----------------------------------------------------------------------------
(* _get_pointing_center_dict *)

\* Angles are integers, in units of 10^-AngleDigits degree.
Deg(n) == n * Pow10(AngleDigits)

\* the decimal d in those units
Fixed(d) == (d.mant * Pow10(AngleDigits)) \div Pow10(d.exp)

FixedOf(f) == IF Raised(f) THEN f ELSE [val |-> Fixed(f.val)]

\* float(x) of a stored value
FloatOf(v) ==
    IF v.type = "int" THEN [val |-> Deg(v.val)]
    ELSE IF v.type = "bool" THEN [val |-> Deg(IF v.val THEN 1 ELSE 0)]
    ELSE IF v.type = "str" THEN FixedOf(ToFloat(v.val))
    ELSE Raise("TypeError")

\* float(property.get(name, 0.0))
Decal(p, name) == IF name \in DOMAIN p THEN FloatOf(p[name]) ELSE [val |-> 0]

\* Python's None, typed like the numbers it stands in for
None == Typed("none", 0)
Float(x) == Typed("float", x)

_constrain_angle(angle, valmin, valmax) ==
    IF angle < valmin THEN valmin
    ELSE IF angle > valmax THEN valmax
    ELSE angle

\* start_time + duration/2.: the instant is kept as its two terms
MidTime(p) == [start |-> p["startTime"].val, plus_half_of |-> p["duration"].val]

\* A request to the coordinate service with its answer.
\* SkyCoord(lon, lat, frame=AltAz(obstime)).transform_to(ICRS)
ToICRS(az, el, t, icrs) ==
    [op |-> "altaz_to_icrs", lon |-> az, lat |-> el, obstime |-> t, answer |-> icrs]

\* SkyCoord(ra, dec).transform_to(AltAz(obstime))
ToAltAz(ra, dec, t, altaz) ==
    [op |-> "icrs_to_altaz", lon |-> ra, lat |-> dec, obstime |-> t, answer |-> altaz]

\* SolarSystemTarget.from_name(name, time): .coordinates and
\* .horizontal_coordinates[0]
Body(name, t, body) ==
    [op |-> "solar_system", name |-> name, obstime |-> t, answer |-> body]

\* what the resolver hands back: the store as it leaves it, the requests
\* it made and the returned dictionary or the exception
Outcome(p, calls, ret) == [property |-> p, calls |-> calls, ret |-> ret]

Center(p, ra, dec) ==
    [val |-> [ra |-> ra, dec |-> dec,
              obs_direction_type |-> Lower(p["directionType"].val)]]

\* right_ascension = _constrain_angle(ra + decal_ra, 0, 360) and
\* declination = _constrain_angle(dec + decal_dec, -90, 90)
Shifted(p, calls, ra, dec, dra, ddec) ==
    IF Raised(dra) THEN Outcome(p, calls, dra)
    ELSE IF Raised(ddec) THEN Outcome(p, calls, ddec)
    ELSE Outcome(p, calls,
                 Center(p, Float(_constrain_angle(ra + dra.val, Deg(0), Deg(360))),
                           Float(_constrain_angle(dec + ddec.val, Deg(0 - 90), Deg(90)))))

\* the additive RA/Dec offsets, read after the horizontal ones
WithDecalRaDec(p, calls, ra, dec) ==
    Shifted(p, calls, ra, dec, Decal(p, "decal_ra"), Decal(p, "decal_dec"))

\* the horizontal direction az, el shifted by decal_az, decal_el, each
\* clamped, and converted to equatorial
ThroughAltAz(p, calls, az, el, daz, del, icrs) ==
    IF Raised(daz) THEN Outcome(p, calls, daz)
    ELSE IF Raised(del) THEN Outcome(p, calls, del)
    ELSE WithDecalRaDec(
             p,
             Append(calls, ToICRS(_constrain_angle(az + daz.val, Deg(0), Deg(360)),
                                  _constrain_angle(el + del.val, Deg(0), Deg(90)),
                                  MidTime(p), icrs)),
             icrs.ra, icrs.dec)

HasDecalAzEl(p) == "decal_az" \in DOMAIN p \/ "decal_el" \in DOMAIN p

\* SkyCoord(ra, dec) refuses a latitude outside [-90, 90] deg
J2000At(p, ra, dec, altaz, icrs) ==
    IF ~HasDecalAzEl(p) THEN WithDecalRaDec(p, <<>>, ra, dec)
    ELSE IF dec < Deg(0 - 90) \/ dec > Deg(90) THEN Outcome(p, <<>>, Raise("ValueError"))
    ELSE ThroughAltAz(p, <<ToAltAz(ra, dec, MidTime(p), altaz)>>, altaz.az, altaz.alt,
                      Decal(p, "decal_az"), Decal(p, "decal_el"), icrs)

HasAngles(p) ==
    /\ "angle1" \in DOMAIN p /\ p["angle1"].type = "angle"
    /\ "angle2" \in DOMAIN p /\ p["angle2"].type = "angle"

\* direction_type == "j2000"
J2000(p, altaz, icrs) ==
    IF ~HasAngles(p) THEN Outcome(p, <<>>, Raise("KeyError"))
    ELSE J2000At(p, Fixed(p["angle1"].val), Fixed(p["angle2"].val), altaz, icrs)

\* direction_type == "azelgeo"
AzElGeo(p, icrs) ==
    IF ~HasAngles(p) THEN Outcome(p, <<>>, Raise("KeyError"))
    ELSE ThroughAltAz(p, <<>>, Fixed(p["angle1"].val), Fixed(p["angle2"].val),
                      Decal(p, "decal_az"), Decal(p, "decal_el"), icrs)

\* direction_type == "azelgeo_azelfile": the zenith, no offset
AzelFile(p, icrs) ==
    Outcome(p, <<ToICRS(Deg(0), Deg(90), MidTime(p), icrs)>>,
            Center(p, Float(icrs.ra), Float(icrs.dec)))

\* Natif with zeroes in place of None
Natif_Zero(p) == Outcome(p, <<>>, Center(p, Float(0), Float(0)))

\* direction_type == "natif"
Natif(p) == Outcome(p, <<>>, Center(p, None, None))

SolarSystemBodies == {"sun", "jupiter"}

\* any other direction type names a Solar System body
SolarSystem(p, name, body, icrs) ==
    IF name \notin SolarSystemBodies THEN Outcome(p, <<>>, Raise("ValueError"))
    ELSE IF ~HasDecalAzEl(p)
    THEN WithDecalRaDec(p, <<Body(name, MidTime(p), body)>>, body.ra, body.dec)
    ELSE ThroughAltAz(p, <<Body(name, MidTime(p), body)>>, body.az, body.alt,
                      Decal(p, "decal_az"), Decal(p, "decal_el"), icrs)

\* the chain `if direction_type == "j2000" ... else`
ByDirectionType(p, direction_type, altaz, icrs, body) ==
    IF direction_type = "j2000" THEN J2000(p, altaz, icrs)
    ELSE IF direction_type = "azelgeo" THEN AzElGeo(p, icrs)
    ELSE IF direction_type = "azelgeo_azelfile" THEN AzelFile(p, icrs)
    ELSE IF direction_type = "natif" THEN Natif(p)
    ELSE SolarSystem(p, direction_type, body, icrs)

\* direction_type = property['directionType'].lower()
ReadDirectionType(p, altaz, icrs, body) ==
    IF "directionType" \notin DOMAIN p THEN Outcome(p, <<>>, Raise("KeyError"))
    ELSE IF p["directionType"].type # "str" THEN Outcome(p, <<>>, Raise("AttributeError"))
    ELSE ByDirectionType(p, Lower(p["directionType"].val), altaz, icrs, body)

\* AzelFileOverride that leaves the stated direction type alone
AzelFileOverride_None(p) == p

\* if "azelFile" in property: property["directionType"] = "azelgeo_azelfile"
AzelFileOverride(p) ==
    IF "azelFile" \in DOMAIN p
    THEN __setitem__(p, "directionType", "azelgeo_azelfile").val
    ELSE p

\* duration = TimeDelta(property['duration'], format='sec');
\* start_time = property['startTime']; stop_time = start_time + duration
_get_pointing_center_dict(p, altaz, icrs, body) ==
    IF "duration" \notin DOMAIN p THEN Outcome(p, <<>>, Raise("KeyError"))
    ELSE IF p["duration"].type # "int" THEN Outcome(p, <<>>, Raise("TypeError"))
    ELSE IF "startTime" \notin DOMAIN p THEN Outcome(p, <<>>, Raise("KeyError"))
    ELSE IF p["startTime"].type # "time" THEN Outcome(p, <<>>, Raise("TypeError"))
    ELSE ReadDirectionType(AzelFileOverride(p), altaz, icrs, body)

-----------------------------------------------------------------------------
(* The resolver on its own: an entity store is decoded from raw fields,    *)
(* then resolved once; the coordinate service answers with any direction.  *)

Absent == <<>>

\* the raw values a field may carry in the parset; Absent: no such line
FieldRaws(name) ==
    CASE name = "directionType" ->
             {Absent, <<"J2000">>, <<"azelgeo">>, <<"natif">>, <<"NATIF">>, <<"Sun">>}
      [] name = "azelFile"  -> {Absent, <<"zenith.azel">>}
      [] name = "angle1"    -> {Absent, <<"350">>, <<"-10.5">>}
      [] name = "angle2"    -> {<<"80">>, <<"-100">>}
      [] name = "decal_az"  -> {Absent, <<"20">>}
      [] name = "decal_el"  -> {Absent, <<"-95.5">>}
      [] name = "decal_ra"  -> {Absent, <<"20">>, <<"-400">>}
      [] name = "decal_dec" -> {Absent, <<"20">>, <<"-200">>}

FieldNames ==
    <<"directionType", "azelFile", "angle1", "angle2",
      "decal_az", "decal_el", "decal_ra", "decal_dec">>

\* the fields every beam needs to be placed in time
TimeFields3 ==
    {<<"duration", "3600", "startTime", "2020-01-01T00:00:00Z">>,
     <<"duration", "3600">>,
     <<"startTime", "2020-01-01T00:00:00Z">>}

RECURSIVE SetAll(_, _)
\* the decoder's successive store[key] = value, data being key, value, ...
SetAll(m, data) ==
    IF data = <<>> THEN m
    ELSE SetAll(__setitem__(m, data[1], data[2]).val, SubSeq(data, 3, Len(data)))

RECURSIVE SetFields(_, _, _)
SetFields(m, choice, i) ==
    IF i > Len(FieldNames) THEN m
    ELSE IF choice[i] = Absent THEN SetFields(m, choice, i + 1)
    ELSE SetFields(__setitem__(m, FieldNames[i], choice[i][1]).val, choice, i + 1)

IcrsAnswers  == {[ra |-> Deg(0), dec |-> Deg(0 - 90)], [ra |-> Deg(360) - 1, dec |-> Deg(90)]}
AltAzAnswers == {[az |-> Deg(0), alt |-> Deg(0 - 30)], [az |-> Deg(350), alt |-> Deg(80)]}
BodyAnswers  == {[ra |-> Deg(10), dec |-> Deg(20), az |-> Deg(180), alt |-> Deg(45)],
                 [ra |-> Deg(360) - 1, dec |-> Deg(0 - 23), az |-> Deg(0), alt |-> Deg(0 - 10)]}

InitResolve ==
    /\ \E times \in TimeFields3,
          dt \in FieldRaws("directionType"), af \in FieldRaws("azelFile"),
          a1 \in FieldRaws("angle1"), a2 \in FieldRaws("angle2"),
          daz \in FieldRaws("decal_az"), del \in FieldRaws("decal_el"),
          dra \in FieldRaws("decal_ra"), ddec \in FieldRaws("decal_dec") :
           property = SetFields(SetAll(EmptyStore, times),
                                <<dt, af, a1, a2, daz, del, dra, ddec>>, 1)
    /\ center = [op |-> "init"]
    /\ coord_calls = <<>>
    /\ IdleStore /\ IdleDecode /\ IdleCompress /\ IdlePulsar
    /\ IdleReceiver /\ IdleJson /\ IdleWriter
    /\ IdleDatabase /\ IdleEntry

ResolveTo(o) ==
    /\ property' = o.property
    /\ coord_calls' = o.calls
    /\ center' = [op |-> "done", input |-> property, ret |-> o.ret]

\* center = _get_pointing_center_dict(property)
Resolve ==
    /\ center.op = "init"
    /\ \E altaz \in AltAzAnswers, icrs \in IcrsAnswers, body \in BodyAnswers :
           ResolveTo(_get_pointing_center_dict(property, altaz, icrs, body))
    /\ UNCHANGED <<storeVars, decodeVars, compressVars, pulsarVars,
                   receiverVars, jsonVars, writerVars,
                   databaseVars, entryVars>>

NextResolve == Resolve

SpecResolve == InitResolve /\ [][NextResolve]_vars

-----------------------------------------------------------------------------
(* Claims about the resolver (SpecResolve) *)

Returned == center.op = "done" /\ ~Raised(center.ret)

Timed(p) ==
    /\ "duration" \in DOMAIN p /\ p["duration"].type = "int"
    /\ "startTime" \in DOMAIN p /\ p["startTime"].type = "time"

StatedNatif(p) ==
    /\ "directionType" \in DOMAIN p
    /\ p["directionType"].type = "str"
    /\ Lower(p["directionType"].val) = "natif"

\* C4: whenever a centre is resolved with a direction type other than
\* 'natif', its right ascension r satisfies 0 <= r < 360 and its
\* declination d satisfies -90 <= d <= 90.
C4_CenterWithinRange ==
    (Returned /\ center.ret.val.obs_direction_type # "natif") =>
        /\ center.ret.val.ra.type = "float"
        /\ center.ret.val.ra.val >= Deg(0) /\ center.ret.val.ra.val < Deg(360)
        /\ center.ret.val.dec.type = "float"
        /\ center.ret.val.dec.val >= Deg(0 - 90) /\ center.ret.val.dec.val <= Deg(90)

\* C5 as stated: an entity whose directionType field is 'natif', in any
\* letter case, resolves to a null right ascension and a null declination
\* whatever its other fields are, an azelFile field included.
C5_NatifAlwaysNull ==
    (Returned /\ StatedNatif(center.input)) =>
        center.ret.val.ra = None /\ center.ret.val.dec = None

\* C5 as amended: an entity placed in time whose directionType field is
\* 'natif', in any letter case, and which carries no azelFile field is
\* resolved, to a null right ascension and a null declination, whatever its
\* angle and decal fields are.
C5_NatifNullWithoutAzelFile ==
    (/\ center.op = "done"
     /\ Timed(center.input)
     /\ StatedNatif(center.input)
     /\ "azelFile" \notin DOMAIN center.input)
    => /\ ~Raised(center.ret)
       /\ center.ret.val.ra = None /\ center.ret.val.dec = None
       /\ center.ret.val.obs_direction_type = "natif"

\* C5 witness: directionType NATIF with angles and a decal_ra offset
C5_Witness ==
    /\ Returned
    /\ "azelFile" \notin DOMAIN center.input
    /\ "directionType" \in DOMAIN center.input
    /\ center.input["directionType"].val = "NATIF"
    /\ "angle1" \in DOMAIN center.input /\ "decal_ra" \in DOMAIN center.input
    /\ center.ret.val.ra = None

\* C6: an entity placed in time that carries an azelFile field resolves as
\* 'azelgeo_azelfile' whatever its directionType says or if it has none:
\* the one request made is the zenith (az 0, el 90) at startTime +
\* duration/2, its answer is returned without any decal offset, and the
\* reported obs_direction_type is 'azelgeo_azelfile'.
C6_AzelFileOverrides ==
    (/\ center.op = "done"
     /\ Timed(center.input)
     /\ "azelFile" \in DOMAIN center.input)
    => /\ ~Raised(center.ret)
       /\ center.ret.val.obs_direction_type = "azelgeo_azelfile"
       /\ Len(coord_calls) = 1
       /\ coord_calls[1].op = "altaz_to_icrs"
       /\ coord_calls[1].lon = Deg(0) /\ coord_calls[1].lat = Deg(90)
       /\ coord_calls[1].obstime = [start |-> center.input["startTime"].val,
                                    plus_half_of |-> center.input["duration"].val]
       /\ center.ret.val.ra = Float(coord_calls[1].answer.ra)
       /\ center.ret.val.dec = Float(coord_calls[1].answer.dec)

\* C6 witness: the entity states J2000, has decal offsets and an azelFile
C6_Witness ==
    /\ Returned
    /\ "azelFile" \in DOMAIN center.input
    /\ "directionType" \in DOMAIN center.input
    /\ center.input["directionType"].val = "J2000"
    /\ "decal_ra" \in DOMAIN center.input /\ "decal_az" \in DOMAIN center.input
    /\ center.ret.val.obs_direction_type = "azelgeo_azelfile"

-----------------------------------------------------------------------------
(* The range compressor: _get_frequency_dict and Parset._get_miniarray_dict *)
(* split a sequence of integers into groups wherever two neighbours do not  *)
(* differ by one, and report one interval per group.                        *)

\* np.diff(a): a[i+1] - a[i]; nothing for fewer than two elements
np_diff(a) == [i \in 1..(Len(a) - 1) |-> a[i + 1] - a[i]]

RECURSIVE np_where_not_one_Gaps(_, _)
\* np_where_not_one that tests d > 1 instead of d != 1
np_where_not_one_Gaps(d, i) ==
    IF i > Len(d) THEN <<>>
    ELSE (IF d[i] > 1 THEN <<i>> ELSE <<>>) \o np_where_not_one_Gaps(d, i + 1)

RECURSIVE np_where_not_one(_, _)
\* np.where(d != 1)[0] + 1, from the i-th difference on: the positions,
\* counted from 0, of the elements that start a new group
np_where_not_one(d, i) ==
    IF i > Len(d) THEN <<>>
    ELSE (IF d[i] # 1 THEN <<i>> ELSE <<>>) \o np_where_not_one(d, i + 1)

RECURSIVE Sections(_, _, _)
\* ary[div[i]:div[i+1]] for each pair of neighbouring division points
Sections(ary, div, i) ==
    IF i >= Len(div) THEN <<>>
    ELSE <<SubSeq(ary, div[i] + 1, div[i + 1])>> \o Sections(ary, div, i + 1)

\* np.split(ary, indices): len(indices) + 1 sections, between the division
\* points [0] + indices + [len(ary)]; an empty ary gives one empty section
np_split(ary, indices) == Sections(ary, <<0>> \o indices \o <<Len(ary)>>, 1)

\* the groups of consecutive integers of a sequence
Groups(a) == np_split(a, np_where_not_one(np_diff(a), 1))

RECURSIVE Comprehension(_, _)
\* a list comprehension over entries that may raise: the list of the
\* values, or the first exception
Comprehension(rs, i) ==
    IF i > Len(rs) THEN [val |-> [j \in 1..Len(rs) |-> rs[j].val]]
    ELSE IF Raised(rs[i]) THEN rs[i]
    ELSE Comprehension(rs, i + 1)

\* {"gte": group[0], "lte": group[-1]}
MiniarrayEntry(group) ==
    IF Len(group) = 0 THEN Raise("IndexError")
    ELSE [val |-> [gte |-> group[1], lte |-> group[Len(group)]]]

MiniarrayEntries(ma_groups) ==
    Comprehension([i \in 1..Len(ma_groups) |-> MiniarrayEntry(ma_groups[i])], 1)

MiniarrayDict(r) ==
    IF Raised(r) THEN r ELSE [val |-> [value |-> r.val, unit |-> ""]]

_get_miniarray_dict(mini_arrays) == MiniarrayDict(MiniarrayEntries(Groups(mini_arrays)))

\* the subband width, 195.3125 kHz, in units of 10^-4 kHz
SB_WIDTH == 1953125

\* nenupy.instru.sb2freq: the start frequency of a subband, kept as the
\* term "start of subband sb, plus so many 10^-4 kHz"
sb2freq(subband) == [sb2freq |-> subband, plus |-> 0]

\* quantity + SB_WIDTH
PlusWidth(q, width) == [q EXCEPT !.plus = @ + width]

Elements(group) == {group[i] : i \in 1..Len(group)}

\* group.min(), which a zero-size array refuses
amin(group) ==
    IF Len(group) = 0 THEN Raise("ValueError")
    ELSE [val |-> CHOOSE x \in Elements(group) : \A y \in Elements(group) : x <= y]

\* group.max()
amax(group) ==
    IF Len(group) = 0 THEN Raise("ValueError")
    ELSE [val |-> CHOOSE x \in Elements(group) : \A y \in Elements(group) : x >= y]

FrequencyValue(lo, hi) ==
    IF Raised(lo) THEN lo
    ELSE IF Raised(hi) THEN hi
    ELSE [val |-> [value |-> [gte |-> sb2freq(lo.val),
                              lt  |-> PlusWidth(sb2freq(hi.val), SB_WIDTH)],
                   unit |-> "MHz"]]

\* {"value": {"gte": ..., "lt": ...}, "unit": "MHz"}
FrequencyEntry(group) == FrequencyValue(amin(group), amax(group))

FrequencyEntries(subband_list_groups) ==
    Comprehension([i \in 1..Len(subband_list_groups) |->
                       FrequencyEntry(subband_list_groups[i])], 1)

\* the frequency intervals of an array of subbands
FrequencyOf(subbands) == FrequencyEntries(Groups(subbands))

AllInts(l) == \A i \in 1..Len(l) : l[i].type = "int"

\* np.diff of what the store holds: a scalar has no dimension to difference
\* along, and elements that are not numbers cannot be subtracted
FrequencyOfValue(v) ==
    IF v.type # "list" THEN Raise("ValueError")
    ELSE IF ~AllInts(v.val) THEN Raise("TypeError")
    ELSE FrequencyOf([i \in 1..Len(v.val) |-> v.val[i].val])

\* _get_frequency_dict(property, field)
_get_frequency_dict(p, field) ==
    IF field \notin DOMAIN p THEN Raise("KeyError")
    ELSE FrequencyOfValue(p[field])

-----------------------------------------------------------------------------
(* The range compressor on its own: both variants are applied to one       *)
(* non-decreasing sequence of integers.                                    *)

MaxSubbands == 5   \* elements of a sequence given to the compressor

Subbands == {5, 100, 101, 102, 200, 201}

NonDecreasing(s) == \A i \in 1..(Len(s) - 1) : s[i] <= s[i + 1]

SubbandLists ==
    {s \in UNION {[1..n -> Subbands] : n \in 0..MaxSubbands} : NonDecreasing(s)}

InitCompress ==
    /\ subband_list \in SubbandLists
    /\ frequency = [op |-> "init"]
    /\ miniarray = [op |-> "init"]
    /\ IdleStore /\ IdleDecode /\ IdleResolve /\ IdlePulsar
    /\ IdleReceiver /\ IdleJson /\ IdleWriter
    /\ IdleDatabase /\ IdleEntry

GetFrequencyDict ==
    /\ frequency.op = "init"
    /\ frequency' = [op |-> "done", ret |-> FrequencyOf(subband_list)]
    /\ UNCHANGED <<subband_list, miniarray>>
    /\ UNCHANGED <<storeVars, decodeVars, resolveVars, pulsarVars,
                   receiverVars, jsonVars, writerVars,
                   databaseVars, entryVars>>

GetMiniarrayDict ==
    /\ miniarray.op = "init"
    /\ miniarray' = [op |-> "done", ret |-> _get_miniarray_dict(subband_list)]
    /\ UNCHANGED <<subband_list, frequency>>
    /\ UNCHANGED <<storeVars, decodeVars, resolveVars, pulsarVars,
                   receiverVars, jsonVars, writerVars,
                   databaseVars, entryVars>>

NextCompress == GetFrequencyDict \/ GetMiniarrayDict

SpecCompress == InitCompress /\ [][NextCompress]_vars

-----------------------------------------------------------------------------
(* Claims about the range compressor (SpecCompress) *)

\* the integers from a to b
Span(a, b) == [i \in 1..(b - a + 1) |-> a + i - 1]

\* the positions i of S whose successor does not follow S[i] by one
Breaks(S) == {i \in 1..(Len(S) - 1) : S[i + 1] - S[i] # 1}

RECURSIVE Ends(_, _, _)
\* the positions of S at which the intervals, expanded in turn, end
Ends(iv, i, at) ==
    IF i > Len(iv) THEN {}
    ELSE {at + (iv[i].hi - iv[i].lo + 1)}
         \cup Ends(iv, i + 1, at + (iv[i].hi - iv[i].lo + 1))

\* what C7 says of the intervals iv returned for the sequence S
Compresses(S, iv) ==
    /\ Concat([i \in 1..Len(iv) |-> Span(iv[i].lo, iv[i].hi)]) = S
    /\ Ends(iv, 1, 0) = Breaks(S) \cup {Len(S)}
    /\ Len(iv) = Cardinality(Breaks(S)) + 1
    /\ S = <<5>> => iv = <<[lo |-> 5, hi |-> 5]>>

MiniarrayIntervals ==
    [i \in 1..Len(miniarray.ret.val.value) |->
        [lo |-> miniarray.ret.val.value[i].gte,
         hi |-> miniarray.ret.val.value[i].lte]]

SubbandIntervals ==
    [i \in 1..Len(frequency.ret.val) |->
        [lo |-> frequency.ret.val[i].value.gte.sb2freq,
         hi |-> frequency.ret.val[i].value.lt.sb2freq]]

\* C7: for a non-empty non-decreasing sequence S (duplicates allowed) both
\* variants return, in order, closed intervals whose expansions concatenate
\* to S, that end exactly where two neighbours differ by something other
\* than 1, and that are as many as the maximal runs of S; [5] gives [5,5].
C7_RunsReproduceSequence ==
    /\ (miniarray.op = "done" /\ subband_list # <<>>) =>
          /\ ~Raised(miniarray.ret)
          /\ Compresses(subband_list, MiniarrayIntervals)
    /\ (frequency.op = "done" /\ subband_list # <<>>) =>
          /\ ~Raised(frequency.ret)
          /\ Compresses(subband_list, SubbandIntervals)

\* C7 witness: a sequence with a duplicate, a run and a gap, compressed by
\* both variants
C7_Witness ==
    /\ subband_list = <<5, 5, 100, 101, 200>>
    /\ miniarray.op = "done" /\ frequency.op = "done"
    /\ Len(miniarray.ret.val.value) = 4

\* C8: for the empty sequence both variants return an empty list of
\* intervals and raise nothing.
C8_EmptyYieldsEmpty ==
    /\ (miniarray.op = "done" /\ subband_list = <<>>) =>
          /\ ~Raised(miniarray.ret)
          /\ miniarray.ret.val.value = <<>>
    /\ (frequency.op = "done" /\ subband_list = <<>>) =>
          /\ ~Raised(frequency.ret)
          /\ frequency.ret.val = <<>>

\* C9: for every non-decreasing subband list the frequency variant returns
\* one interval per maximal run, in order, from the mapping of the run's
\* smallest subband to the mapping of its largest subband plus one subband
\* width; [100,101,102,200,201] gives the intervals of 100-102 and 200-201.
C9_FrequencyIntervals ==
    (frequency.op = "done") =>
       /\ ~Raised(frequency.ret)
       /\ Len(frequency.ret.val) =
             IF subband_list = <<>> THEN 0 ELSE Cardinality(Breaks(subband_list)) + 1
       /\ Ends(SubbandIntervals, 1, 0) \subseteq Breaks(subband_list) \cup {Len(subband_list)}
       /\ \A i \in 1..Len(frequency.ret.val) :
             /\ frequency.ret.val[i].value.gte = sb2freq(SubbandIntervals[i].lo)
             /\ frequency.ret.val[i].value.lt =
                   [sb2freq |-> SubbandIntervals[i].hi, plus |-> SB_WIDTH]
             /\ frequency.ret.val[i].unit = "MHz"
       /\ subband_list = <<100, 101, 102, 200, 201>> =>
             SubbandIntervals = <<[lo |-> 100, hi |-> 102], [lo |-> 200, hi |-> 201]>>

-----------------------------------------------------------------------------
(* _parse_parameters and the pulsar receiver setting *)

\* {param.split('=')[0]: param.split('=')[1]}: the text between the first
\* and the second '='
PutPair(configs, kv) == Store(configs, kv[1], Typed("str", kv[2]))

WithKeyValue(configs, param) ==
    IF Contains(param, "=") THEN PutPair(configs, Split(param, "=")) ELSE configs

RECURSIVE KeyValues(_, _)
\* the dict comprehension over the params that hold '=': a later param
\* replaces an earlier one of the same key
KeyValues(params, configs) ==
    IF params = <<>> THEN configs
    ELSE KeyValues(Tail(params), WithKeyValue(configs, Head(params)))

\* {param.rstrip(): True}
WithFlag(configs, param) ==
    IF Contains(param, "=") THEN configs
    ELSE Store(configs, RStrip(param), Typed("bool", TRUE))

RECURSIVE Flags(_, _)
\* configs.update(...) over the params split at '--' that hold no '='
Flags(params, configs) ==
    IF params = <<>> THEN configs
    ELSE Flags(Tail(params), WithFlag(configs, Head(params)))

\* the key=value params come from split('--') for a pulsar beam and from
\* split() otherwise; the flags from split('--') in both cases
ParseLowered(parameters, pulsar) ==
    [mode    |-> Split(parameters, ":")[1],
     configs |-> Flags(Split(parameters, "--"),
                       KeyValues(IF pulsar THEN Split(parameters, "--")
                                 ELSE SplitWs(parameters), EmptyStore))]

\* mode, configs = _parse_parameters(parameters, pulsar)
_parse_parameters(parameters, pulsar) == ParseLowered(Lower(parameters), pulsar)

\* config[key]
Lookup(config, key) ==
    IF key \in DOMAIN config THEN [val |-> config[key]] ELSE Raise("KeyError")

\* the truth of a config value: True, or a string that is not empty
Truthy(v) == IF v.type = "bool" THEN v.val ELSE v.val # ""

\* 1 if config.get("onlyi", False) else 4
NPolars(config) == IF "onlyi" \in DOMAIN config /\ Truthy(config["onlyi"]) THEN 1 ELSE 4

\* int(config["dstime"]): int(True) is 1
IntOf(r) ==
    IF Raised(r) THEN r
    ELSE IF r.val.type = "bool" THEN [val |-> 1]
    ELSE ToInt(r.val.val)

\* the dict literal of the modes fold, waveolaf and wave, its values
\* evaluated in the order written
ModeSetting(mode, src, n_polars, freq) ==
    IF Raised(src) THEN src
    ELSE IF Raised(freq) THEN freq
    ELSE IF mode = "fold"
    THEN [val |-> [name |-> "undysputed", mode |-> "pulsar_fold",
                   source_name |-> src.val, n_polars |-> n_polars,
                   frequency |-> freq.val]]
    ELSE [val |-> [name |-> "undysputed", mode |-> "pulsar_" \o mode,
                   source_name |-> src.val, frequency |-> freq.val]]

\* the dict literal of the mode single
SingleSetting(src, downsampling, n_polars, freq) ==
    IF Raised(src) THEN src
    ELSE IF Raised(downsampling) THEN downsampling
    ELSE IF Raised(freq) THEN freq
    ELSE [val |-> [name |-> "undysputed", mode |-> "pulsar_single",
                   source_name |-> src.val, downsampling |-> downsampling.val,
                   n_polars |-> n_polars, frequency |-> freq.val]]

EmptyDict == <<>>

\* the receiver configuration of the observing mode
SettingOf(digibeam_, parsed) ==
    IF parsed.mode \in {"fold", "waveolaf", "wave"}
    THEN ModeSetting(parsed.mode, Lookup(parsed.configs, "src"),
                     NPolars(parsed.configs),
                     _get_frequency_dict(digibeam_, "subbandList"))
    ELSE IF parsed.mode = "single"
    THEN SingleSetting(Lookup(parsed.configs, "src"),
                       IntOf(Lookup(parsed.configs, "dstime")),
                       NPolars(parsed.configs),
                       _get_frequency_dict(digibeam_, "subbandList"))
    ELSE [val |-> EmptyDict]

\* _pulsar_setting(digibeam, output, version): a missing 'parameters' is
\* caught, and the warning then reads digibeam['noBeam']; parameters that
\* are not a string have no lower()
_pulsar_setting(digibeam_) ==
    IF "parameters" \notin DOMAIN digibeam_
    THEN (IF "noBeam" \in DOMAIN digibeam_ THEN [val |-> EmptyDict] ELSE Raise("KeyError"))
    ELSE IF digibeam_["parameters"].type # "str" THEN Raise("AttributeError")
    ELSE SettingOf(digibeam_, _parse_parameters(digibeam_["parameters"].val, TRUE))

-----------------------------------------------------------------------------
(* The pulsar setting on its own: a digital beam is read from the lines of *)
(* a parset, then its receiver configuration is derived.                   *)

MaxTokens == 2     \* '--' tokens of a parameters string

Modes == {"FOLD", "Single", "wave", "WaveOlaf", "TF", "fold "}

Tokens ==
    {" --src=B0329+54", " --onlyi", " --dstime=4", " --SRC=j1=x", " --src", " --OnlyI"}

TokenSeqs == UNION {[1..n -> Tokens] : n \in 0..MaxTokens}

ParameterRaws ==
    {<<"parameters", m \o ":" \o Join(ts, "")>> : m \in Modes, ts \in TokenSeqs}
    \cup {<<"parameters", "12">>, <<"noBeam", "0">>, <<>>}

SubbandRaws == {<<"subbandList", "[100..102,200..201]">>, <<"subbandList", "[5]">>,
                <<"subbandList", "[5..3]">>, <<>>}

InitPulsar ==
    /\ \E p \in ParameterRaws, s \in SubbandRaws : digibeam = SetAll(EmptyStore, p \o s)
    /\ receiver = [op |-> "init"]
    /\ IdleStore /\ IdleDecode /\ IdleResolve /\ IdleCompress
    /\ IdleReceiver /\ IdleJson /\ IdleWriter
    /\ IdleDatabase /\ IdleEntry

\* receiver = _pulsar_setting(digibeam, output, version)
PulsarSetting ==
    /\ receiver.op = "init"
    /\ receiver' = [op |-> "done", ret |-> _pulsar_setting(digibeam)]
    /\ UNCHANGED digibeam
    /\ UNCHANGED <<storeVars, decodeVars, resolveVars, compressVars,
                   receiverVars, jsonVars, writerVars,
                   databaseVars, entryVars>>

NextPulsar == PulsarSetting

SpecPulsar == InitPulsar /\ [][NextPulsar]_vars

-----------------------------------------------------------------------------
(* Claims about the pulsar setting (SpecPulsar) *)

Configured == receiver.op = "done" /\ ~Raised(receiver.ret)

ParametersAre(text) ==
    /\ "parameters" \in DOMAIN digibeam
    /\ digibeam["parameters"].type = "str"
    /\ digibeam["parameters"].val = text

\* the parameters hold the bare token --onlyi
HasOnlyI ==
    /\ "parameters" \in DOMAIN digibeam
    /\ digibeam["parameters"].type = "str"
    /\ Contains(Lower(digibeam["parameters"].val) \o " ", "--onlyi ")

\* C10: the configuration built from '<mode>: --k=v --flag' names the
\* lowercased mode, gives as source_name the text after 'src=' without any
\* surrounding whitespace, and has n_polars 1 when the bare flag onlyi is
\* among the tokens and 4 otherwise; "FOLD: --src=B0329+54 --onlyi" on a
\* beam with subbands gives source_name "b0329+54", n_polars 1 and mode
\* "pulsar_fold".
C10_PulsarParameters ==
    /\ (Configured /\ "source_name" \in DOMAIN receiver.ret.val
           /\ receiver.ret.val.source_name.type = "str") =>
          receiver.ret.val.source_name.val = Strip(receiver.ret.val.source_name.val)
    /\ (Configured /\ "n_polars" \in DOMAIN receiver.ret.val) =>
          receiver.ret.val.n_polars = IF HasOnlyI THEN 1 ELSE 4
    /\ (/\ receiver.op = "done"
        /\ ParametersAre("FOLD: --src=B0329+54 --onlyi")
        /\ "subbandList" \in DOMAIN digibeam
        /\ digibeam["subbandList"].val # <<>>) =>
          /\ ~Raised(receiver.ret)
          /\ receiver.ret.val.mode = "pulsar_fold"
          /\ receiver.ret.val.n_polars = 1
          /\ receiver.ret.val.source_name.type = "str"
          /\ receiver.ret.val.source_name.val = "b0329+54"

-----------------------------------------------------------------------------
(* The receiver settings and their dispatch in _JsonEntry.add_pointing *)

RECURSIVE TupleLess(_, _)
\* a < b for tuples of integers: the first differing element decides, a
\* proper prefix is smaller
TupleLess(a, b) ==
    IF b = <<>> THEN FALSE
    ELSE IF a = <<>> THEN TRUE
    ELSE IF Head(a) # Head(b) THEN Head(a) < Head(b)
    ELSE TupleLess(Tail(a), Tail(b))

\* the dict literal of _default_setting
DefaultSetting(freq) ==
    IF Raised(freq) THEN freq
    ELSE [val |-> [name |-> "LaNewBa",
                   dt |-> [value |-> 1, unit |-> "s"],
                   df |-> [value |-> SB_WIDTH, unit |-> "kHz"],
                   frequency |-> freq.val]]

_default_setting(digibeam_, output_, version) ==
    DefaultSetting(_get_frequency_dict(digibeam_, "subbandList"))

\* the dict literal of _waveform_setting
WaveformSetting(freq) ==
    IF Raised(freq) THEN freq
    ELSE [val |-> [name |-> "undysputed", mode |-> "waveform", frequency |-> freq.val]]

_waveform_setting(digibeam_, output_, version) ==
    WaveformSetting(_get_frequency_dict(digibeam_, "subbandList"))

\* config = {"dt": 5.00, "df": 6.1}
DefaultConfig ==
    [dt |-> Typed("float", [mant |-> 5, exp |-> 0]),
     df |-> Typed("float", [mant |-> 61, exp |-> 1])]

\* float(config[key]): float(True) is 1.0
FloatOfConfig(r) ==
    IF Raised(r) THEN r
    ELSE IF r.val.type = "bool" THEN [val |-> [mant |-> (IF r.val.val THEN 1 ELSE 0), exp |-> 0]]
    ELSE IF r.val.type = "float" THEN [val |-> r.val.val]
    ELSE ToFloat(r.val.val)

\* the dict literal of the mode tf, its values evaluated in the order written
TfSetting(dt, df, freq) ==
    IF Raised(dt) THEN dt
    ELSE IF Raised(df) THEN df
    ELSE IF Raised(freq) THEN freq
    ELSE [val |-> [name |-> "undysputed", mode |-> "tf",
                   dt |-> [value |-> dt.val, unit |-> "ms"],
                   df |-> [value |-> df.val, unit |-> "kHz"],
                   frequency |-> freq.val]]

\* except KeyError: the warning reads digibeam['toDo'], then return {}
WrongConfiguration(digibeam_, r) ==
    IF ~Raised(r) THEN r
    ELSE IF r.raised # "KeyError" THEN r
    ELSE IF "toDo" \in DOMAIN digibeam_ THEN [val |-> EmptyDict]
    ELSE Raise("KeyError")

\* the second try block of _dynamicspectrum_setting
DynamicSpectrumOf(digibeam_, output_, version, config) ==
    WrongConfiguration(
        digibeam_,
        IF "tf: rawrt" \in DOMAIN config /\ Truthy(config["tf: rawrt"])
        THEN _waveform_setting(digibeam_, output_, version)
        ELSE TfSetting(FloatOfConfig(Lookup(config, "dt")),
                       FloatOfConfig(Lookup(config, "df")),
                       _get_frequency_dict(digibeam_, "subbandList")))

\* the first try block: a missing 'parameters' is caught, the warning reads
\* digibeam['noBeam'] and the default configuration is taken
_dynamicspectrum_setting(digibeam_, output_, version) ==
    IF "parameters" \notin DOMAIN digibeam_
    THEN (IF "noBeam" \in DOMAIN digibeam_
          THEN DynamicSpectrumOf(digibeam_, output_, version, DefaultConfig)
          ELSE Raise("KeyError"))
    ELSE IF digibeam_["parameters"].type # "str" THEN Raise("AttributeError")
    ELSE DynamicSpectrumOf(digibeam_, output_, version,
                           _parse_parameters(digibeam_["parameters"].val, FALSE).configs)

\* the dict literal nickel_config and its "frequency" item
NickelSetting(channelization, dumptime, parameters, freq) ==
    IF Raised(channelization) THEN channelization
    ELSE IF Raised(dumptime) THEN dumptime
    ELSE IF Raised(parameters) THEN parameters
    ELSE IF Raised(freq) THEN freq
    ELSE [val |-> [name |-> "nickel",
                   channelization |-> [value |-> channelization.val, unit |-> None],
                   dumptime |-> [value |-> dumptime.val, unit |-> "s"],
                   frequency |-> freq.val]]

\* try: _parse_parameters(phasecenter["parameters"], pulsar=True)
\* except KeyError: the warning reads phasecenter['noBeam']
NickelParameters(phasecenter) ==
    IF "parameters" \notin DOMAIN phasecenter
    THEN (IF "noBeam" \in DOMAIN phasecenter THEN [val |-> TRUE] ELSE Raise("KeyError"))
    ELSE IF phasecenter["parameters"].type # "str" THEN Raise("AttributeError")
    ELSE [val |-> TRUE]

_nickel_setting(phasecenter, output_, version) ==
    IF ~TupleLess(version, <<1, 0>>)
    THEN NickelSetting(Lookup(output_, "nri_channelization"), Lookup(output_, "nri_dumpTime"),
                       NickelParameters(phasecenter),
                       _get_frequency_dict(phasecenter, "subbandList"))
    ELSE NickelSetting(Lookup(output_, "nri_channelization"), Lookup(output_, "nri_dumpTime"),
                       [val |-> TRUE],
                       _get_frequency_dict(output_, "nri_subbandList"))

\* x in v: an element of a list, a part of a string; nothing else iterates
In(x, v) ==
    IF v.type = "list"
    THEN [val |-> \E i \in 1..Len(v.val) : v.val[i].type = "str" /\ v.val[i].val = x]
    ELSE IF v.type = "str" THEN [val |-> Contains(v.val, x)]
    ELSE Raise("TypeError")

\* "nickel" in output.get("nri_receivers", [])
NickelDeclared(output_) ==
    IF "nri_receivers" \in DOMAIN output_ THEN In("nickel", output_["nri_receivers"])
    ELSE [val |-> FALSE]

TbdSetting(digibeam_, output_, version, declared) ==
    IF Raised(declared) THEN declared
    ELSE IF declared.val /\ TupleLess(version, <<1, 0>>)
    THEN _nickel_setting(digibeam_, output_, version)
    ELSE _default_setting(digibeam_, output_, version)

\* _tbd_setting that does not look at the version
_tbd_setting_AnyVersion(digibeam_, output_, version) ==
    TbdSetting(digibeam_, output_, <<0>>, NickelDeclared(output_))

_tbd_setting(digibeam_, output_, version) ==
    TbdSetting(digibeam_, output_, version, NickelDeclared(output_))

\* BEAM_SETTINGS[name](beam, output, version); a name that is no key of the
\* dict is a KeyError
BEAM_SETTINGS(name, digibeam_, output_, version) ==
    CASE name = "none"            -> _default_setting(digibeam_, output_, version)
      [] name = "pulsar"          -> _pulsar_setting(digibeam_)
      [] name = "waveform"        -> _waveform_setting(digibeam_, output_, version)
      [] name = "dynamicspectrum" -> _dynamicspectrum_setting(digibeam_, output_, version)
      [] name = "tbd"             -> _tbd_setting(digibeam_, output_, version)
      [] name = "nickel"          -> _nickel_setting(digibeam_, output_, version)
      [] OTHER                    -> Raise("KeyError")

\* pointing_setting_func = BEAM_SETTINGS[beam.get("toDo", "none").lower()]
\* pointing["receiver"] = pointing_setting_func(beam, self.output, version)
ChosenSetting(beam_, output_, version) ==
    IF "toDo" \notin DOMAIN beam_ THEN BEAM_SETTINGS("none", beam_, output_, version)
    ELSE IF beam_["toDo"].type # "str" THEN Raise("AttributeError")
    ELSE BEAM_SETTINGS(Lower(beam_["toDo"].val), beam_, output_, version)

-----------------------------------------------------------------------------
(* The receiver settings on their own: a beam and the Output entity are    *)
(* read from the lines of a parset, then the beam's receiver is configured *)
(* as add_pointing does.                                                    *)

ToDoRaws ==
    {<<>>} \cup {<<"toDo", t>> : t \in {"None", "Pulsar", "WAVEFORM", "dynamicspectrum",
                                        "TBD", "nickel", "foo"}}

BeamParameterRaws ==
    {<<>>} \cup {<<"parameters", t>> : t \in {"FOLD: --src=B0329+54", "FOLD: --onlyi",
                                              "TF: DF=3.05 DT=10.0 HAMM", "TF: DF=3.05",
                                              "TF: RAWRT"}}

BeamSubbandRaws == {<<>>, <<"subbandList", "[5,6]">>}

NoBeamRaws == {<<>>, <<"noBeam", "0">>}

OutputRaws ==
    {c \o s \o r :
        c \in {<<>>, <<"nri_channelization", "64">>,
               <<"nri_channelization", "64", "nri_dumpTime", "1">>},
        s \in {<<>>, <<"nri_subbandList", "[7]">>},
        r \in {<<>>, <<"nri_receivers", "[nickel]">>, <<"nri_receivers", "[undysputed]">>}}

Versions == {<<0>>, <<1, 0>>}

InitReceiver ==
    /\ \E t \in ToDoRaws, p \in BeamParameterRaws, s \in BeamSubbandRaws, n \in NoBeamRaws :
           beam = SetAll(EmptyStore, t \o p \o s \o n)
    /\ \E o \in OutputRaws : entry_output = SetAll(EmptyStore, o)
    /\ parset_version \in Versions
    /\ setting = [op |-> "init"]
    /\ IdleStore /\ IdleDecode /\ IdleResolve /\ IdleCompress /\ IdlePulsar
    /\ IdleJson /\ IdleWriter
    /\ IdleDatabase /\ IdleEntry

\* the receiver part of add_pointing
ChooseSetting ==
    /\ setting.op = "init"
    /\ setting' = [op |-> "done", ret |-> ChosenSetting(beam, entry_output, parset_version)]
    /\ UNCHANGED <<beam, entry_output, parset_version>>
    /\ UNCHANGED <<storeVars, decodeVars, resolveVars, compressVars, pulsarVars,
                   jsonVars, writerVars,
                   databaseVars, entryVars>>

SpecReceiver == InitReceiver /\ [][ChooseSetting]_vars

-----------------------------------------------------------------------------
(* Claims about the receiver settings (SpecReceiver) *)

ToDoIs(names) ==
    IF "toDo" \in DOMAIN beam
    THEN beam["toDo"].type = "str" /\ Lower(beam["toDo"].val) \in names
    ELSE "none" \in names

HandlerNames == {"none", "pulsar", "waveform", "dynamicspectrum", "tbd", "nickel"}

\* C11: whatever fields the beam and the Output entity carry, each of the
\* six handlers returns a document (an empty one when a lookup inside it
\* finds no key); no exception leaves the handler.
C11_HandlersNeverRaise ==
    (setting.op = "done" /\ ToDoIs(HandlerNames)) => ~Raised(setting.ret)

\* C12: the dispatch is total: a toDo token that names no handler is
\* recovered with an empty or default receiver document, not an exception;
\* an absent toDo gives the document of the 'none' handler.
C12_DispatchTotal ==
    /\ (setting.op = "done" /\ ~ToDoIs(HandlerNames)) => ~Raised(setting.ret)
    /\ (setting.op = "done" /\ "toDo" \notin DOMAIN beam) =>
          setting.ret = _default_setting(beam, entry_output, parset_version)

-----------------------------------------------------------------------------
(* The document builder: _JsonEntry and Parset.to_json.  The Parset is a   *)
(* record of its two stores and three dicts; a dict of entities is the     *)
(* sequence of its items [idx, store] in insertion order.  What astropy     *)
(* computes from a Time is kept as a term over the Time's value.           *)

\* Time.isot
Isot(t) == [isot |-> t]

\* start + duration (a Time) and stop - start (a TimeDelta, in seconds)
TimePlus(t, seconds) == [start |-> t, plus |-> seconds]
TimeMinus(stop, start) == [from |-> start, to |-> stop]

\* property[key] of a store, the value expected to be of one type; tp is
\* the exception that a value of another type ends in
LookupTyped(p, key, type, exc) ==
    IF key \notin DOMAIN p THEN Raise("KeyError")
    ELSE IF p[key].type # type THEN Raise(exc)
    ELSE [val |-> p[key].val]

TimeDict(duration, start) ==
    IF Raised(duration) THEN duration
    ELSE IF Raised(start) THEN start
    ELSE [val |-> [startstop |-> [gte |-> Isot(start.val),
                                  lte |-> Isot(TimePlus(start.val, duration.val))],
                   duration |-> [value |-> duration.val, unit |-> "s"]]]

\* _get_time_dict(property)
_get_time_dict(p) ==
    TimeDict(LookupTyped(p, "duration", "int", "TypeError"),
             LookupTyped(p, "startTime", "time", "TypeError"))

\* the characters of a string, each a string
Chars(s) == [i \in 1..Len(s) |-> Typed("str", Char(s, i))]

\* iter(value): the elements of a list, the characters of a string
Iter(r) ==
    IF Raised(r) THEN r
    ELSE IF r.val.type = "list" THEN [val |-> r.val.val]
    ELSE IF r.val.type = "str" THEN [val |-> Chars(r.val.val)]
    ELSE Raise("TypeError")

DictArray(r) ==
    IF Raised(r) THEN r ELSE [val |-> [i \in 1..Len(r.val) |-> [value |-> r.val[i]]]]

\* _array_to_dict_array(array), unit ""
_array_to_dict_array(r) == DictArray(Iter(r))

\* int(fil) of a list element
IntOfElement(e) ==
    IF e.type = "int" THEN [val |-> e.val]
    ELSE IF e.type = "str" THEN ToInt(e.val)
    ELSE Raise("TypeError")

\* {"name": int(fil), "start": tim.isot}
FilterEntry(name, tim) ==
    IF Raised(name) THEN name
    ELSE IF tim.type # "time" THEN Raise("AttributeError")
    ELSE [val |-> [name |-> name.val, start |-> Isot(tim.val)]]

Shorter(a, b) == IF Len(a) <= Len(b) THEN Len(a) ELSE Len(b)

\* the comprehension over zip(anabeam["filter"], anabeam["filterTime"])
Filters(fil, tim) ==
    IF Raised(fil) THEN fil
    ELSE IF Raised(tim) THEN tim
    ELSE Comprehension([i \in 1..Shorter(fil.val, tim.val) |->
                            FilterEntry(IntOfElement(fil.val[i]), tim.val[i])], 1)

\* anabeam.get(key, default)
Get(p, key, default) == IF key \in DOMAIN p THEN p[key] ELSE default

\* the dict fov, its items assigned in the order written
Fov(index, name, c, time, squint, optFrq, mas, ants, filter) ==
    IF Raised(name) THEN name
    ELSE IF Raised(c) THEN c
    ELSE IF Raised(time) THEN time
    ELSE IF Raised(mas) THEN mas
    ELSE IF Raised(ants) THEN ants
    ELSE IF Raised(filter) THEN filter
    ELSE [val |-> [idx |-> index, pointings |-> <<>>, name |-> name.val,
                   center |-> c.val, time |-> time.val,
                   beamsquint |-> [correction |-> squint,
                                   frequency |-> [value |-> optFrq, unit |-> "MHz"]],
                   mini_arrays |-> mas.val, antennas |-> ants.val,
                   filter |-> filter.val]]

\* the store as _get_pointing_center_dict leaves it, once 'target' is read
AfterCenter(p, o) == IF "target" \in DOMAIN p THEN o.property ELSE p

\* fov of add_field_of_view(index, anabeam), o being what
\* _get_pointing_center_dict(anabeam) yields
FovOf(index, p, o) ==
    Fov(index, Lookup(p, "target"), o.ret, _get_time_dict(o.property),
        Get(o.property, "beamSquint", Typed("bool", FALSE)),
        Get(o.property, "optFrq", None),
        _array_to_dict_array(Lookup(o.property, "maList")),
        _array_to_dict_array(Lookup(o.property, "antList")),
        Filters(Iter(Lookup(o.property, "filter")), Iter(Lookup(o.property, "filterTime"))))

\* tuple(map(lambda x: int(x), version_str.split(".")))
VersionTuple(parts) == Comprehension([i \in 1..Len(parts) |-> ToInt(parts[i])], 1)

\* Parset.version: observation.get("parsetVersion", "0"), a string
version(observation_) ==
    IF "parsetVersion" \notin DOMAIN observation_ THEN [val |-> <<0>>]
    ELSE IF observation_["parsetVersion"].type # "str" THEN Raise("AttributeError")
    ELSE VersionTuple(Split(observation_["parsetVersion"].val, "."))

RECURSIVE LastSlash(_, _)
\* the position of the last '/' of a path, 0 if it has none
LastSlash(path, i) ==
    IF i = 0 THEN 0 ELSE IF Char(path, i) = "/" THEN i ELSE LastSlash(path, i - 1)

\* os.path.basename and os.path.dirname of an absolute path
basename(path) == From(path, LastSlash(path, Len(path)) + 1)
dirname(path) ==
    IF LastSlash(path, Len(path)) = 1 THEN "/"
    ELSE SubSeq(path, 1, LastSlash(path, Len(path)) - 1)

\* topic[:4] and topic[5:] when the topic starts with 'ES'
Topic(topic) ==
    IF topic.type # "str" THEN Raise("AttributeError")
    ELSE IF StartsWith(topic.val, "ES")
    THEN [val |-> [code |-> SubSeq(topic.val, 1, Shorter(topic.val, "1234")),
                   name |-> From(topic.val, 6)]]
    ELSE [val |-> [code |-> "ES00", name |-> topic.val]]

KeyMapping == [title |-> "title", contactName |-> "contact_name", name |-> "name"]

\* for key, value in observation.items(): the passed-through fields
PassedThrough(observation_) ==
    [k \in {KeyMapping[key] : key \in DOMAIN KeyMapping \cap DOMAIN observation_} |->
        observation_[CHOOSE key \in DOMAIN KeyMapping : KeyMapping[key] = k]]

Merge(a, b) == [k \in DOMAIN a \cup DOMAIN b |-> IF k \in DOMAIN b THEN b[k] ELSE a[k]]

ObsMetadata(observation_, parset_file, parset_user, start, stop, topic) ==
    IF Raised(start) THEN start
    ELSE IF Raised(stop) THEN stop
    ELSE IF Raised(topic) THEN topic
    ELSE [val |-> Merge(Merge([timestamp |-> Isot(start.val),
                               file_name |-> [name |-> basename(parset_file),
                                              path |-> dirname(parset_file)],
                               time |-> [startstop |-> [gte |-> Isot(start.val),
                                                        lt |-> Isot(stop.val)],
                                         duration |-> [value |-> TimeMinus(stop.val, start.val),
                                                       unit |-> "s"]],
                               topic |-> topic.val],
                              PassedThrough(observation_)),
                        [parset_user |-> parset_user])]

\* add_observation_metadata(observation, parset_file, parset_user): the
\* dict obs_metadata ("@timestamp" is written timestamp)
add_observation_metadata(observation_, parset_file, parset_user) ==
    ObsMetadata(observation_, parset_file, parset_user,
                LookupTyped(observation_, "startTime", "time", "AttributeError"),
                LookupTyped(observation_, "stopTime", "time", "AttributeError"),
                Topic(Get(observation_, "topic", Typed("str", "ES00 DEBUG"))))

\* The builder's state st: the Parset, the _JsonEntry's obs_metadata, fovs
\* and pointings, and to_json's local digi_idx.  A step yields [val |-> st]
\* or the exception with the state it leaves.
Failed(st, r) == [raised |-> r.raised, st |-> st]

SetStore(items, i, p) == [items EXCEPT ![i].store = p]

\* self.fovs.append(fov)
AppendFov(st, f) ==
    IF Raised(f) THEN Failed(st, f) ELSE [val |-> [st EXCEPT !.fovs = Append(@, f.val)]]

AddFovWith(st, i, o) ==
    AppendFov([st EXCEPT !.parset.anabeams = SetStore(@, i, AfterCenter(@[i].store, o))],
              FovOf(st.parset.anabeams[i].idx, st.parset.anabeams[i].store, o))

\* json_entry.add_field_of_view(ana_idx, anabeam), for the i-th analog beam
add_field_of_view(st, i, svc) ==
    AddFovWith(st, i, _get_pointing_center_dict(st.parset.anabeams[i].store,
                                                svc.altaz, svc.icrs, svc.body))

\* self.fov_indices == beam["noBeam"], element by element: an integer is
\* compared by value, True is 1 and False is 0, nothing else equals an index
Matches(idx, v) ==
    IF v.type = "int" THEN v.val = idx
    ELSE IF v.type = "bool" THEN idx = (IF v.val THEN 1 ELSE 0)
    ELSE FALSE

RECURSIVE FirstMatch(_, _, _)
\* np.where(...)[0][0], counted from 0: no match leaves an empty array,
\* which has no element 0
FirstMatch(fovs, v, i) ==
    IF i > Len(fovs) THEN Raise("IndexError")
    ELSE IF Matches(fovs[i].idx, v) THEN [val |-> i - 1]
    ELSE FirstMatch(fovs, v, i + 1)

\* FovIndex that falls back on position zero
FovIndex_OrZero(fovs, noBeam) ==
    IF Raised(noBeam) THEN noBeam
    ELSE IF Raised(FirstMatch(fovs, noBeam.val, 1)) THEN [val |-> 0]
    ELSE FirstMatch(fovs, noBeam.val, 1)

\* FovIndex that takes noBeam for the position of the fov
FovIndex_AsPosition(fovs, noBeam) ==
    IF Raised(noBeam) THEN noBeam
    ELSE IF noBeam.val.type # "int" \/ noBeam.val.val >= Len(fovs) THEN Raise("IndexError")
    ELSE [val |-> noBeam.val.val]

\* fov_idx = np.where(self.fov_indices == beam["noBeam"])[0][0]
FovIndex(fovs, noBeam) ==
    IF Raised(noBeam) THEN noBeam ELSE FirstMatch(fovs, noBeam.val, 1)

\* the dict pointing, its items assigned in the order written
Pointing(index, name, c, time, rx) ==
    IF Raised(name) THEN name
    ELSE IF Raised(c) THEN c
    ELSE IF Raised(time) THEN time
    ELSE IF Raised(rx) THEN rx
    ELSE [val |-> [idx |-> index, name |-> name.val, center |-> c.val,
                   time |-> time.val, receiver |-> rx.val]]

\* pointing_setting_func: chosen by the beam's toDo, or _nickel_setting
SettingBy(func, beam_, output_, version_) ==
    IF func = "auto" THEN ChosenSetting(beam_, output_, version_)
    ELSE _nickel_setting(beam_, output_, version_)

\* self.pointings.append((fov_idx, pointing))
AppendPointing(st, pt, fov_idx) ==
    IF Raised(pt) THEN Failed(st, pt)
    ELSE IF Raised(fov_idx) THEN Failed(st, fov_idx)
    ELSE [val |-> [st EXCEPT !.pointings = Append(@, <<fov_idx.val, pt.val>>)]]

AddPointingWith(st, index, kind, i, version_, func, o) ==
    AppendPointing(
        [st EXCEPT !.parset[kind] = SetStore(@, i, AfterCenter(@[i].store, o))],
        Pointing(index, Lookup(st.parset[kind][i].store, "target"), o.ret,
                 _get_time_dict(o.property),
                 SettingBy(func, o.property, st.parset.output, version_)),
        FovIndex(st.fovs, Lookup(o.property, "noBeam")))

\* json_entry.add_pointing(index, beam, parset_version, pointing_setting_func),
\* the beam being the i-th item of the Parset's dict `kind`
add_pointing(st, index, kind, i, version_, func, svc) ==
    AddPointingWith(st, index, kind, i, version_, func,
                    _get_pointing_center_dict(st.parset[kind][i].store,
                                              svc.altaz, svc.icrs, svc.body))

RECURSIVE FieldsOfView(_, _, _)
\* for ana_idx, anabeam in self.anabeams.items()
FieldsOfView(r, i, svc) ==
    IF Raised(r) THEN r
    ELSE IF i > Len(r.val.parset.anabeams) THEN r
    ELSE FieldsOfView(add_field_of_view(r.val, i, svc), i + 1, svc)

RECURSIVE DigiPointings(_, _, _, _)
\* for digi_idx, digibeam in self.digibeams.items()
DigiPointings(r, i, version_, svc) ==
    IF Raised(r) THEN r
    ELSE IF i > Len(r.val.parset.digibeams) THEN r
    ELSE DigiPointings(
             add_pointing([r.val EXCEPT !.digi_idx = <<r.val.parset.digibeams[i].idx>>],
                          r.val.parset.digibeams[i].idx, "digibeams", i, version_, "auto", svc),
             i + 1, version_, svc)

\* pc_index = center_idx + digi_idx + 1, digi_idx being what the loop over
\* the digital beams left, if it ran
PhaseCenterPointing(st, i, version_, svc) ==
    IF st.digi_idx = Unbound THEN Failed(st, Raise("UnboundLocalError"))
    ELSE add_pointing(st, st.parset.phase_centers[i].idx + st.digi_idx[1] + 1,
                      "phase_centers", i, version_, "auto", svc)

RECURSIVE PhaseCenterPointings(_, _, _, _)
\* if parset_version >= (1, 0): for center_idx, phase_center in ...
PhaseCenterPointings(r, i, version_, svc) ==
    IF Raised(r) THEN r
    ELSE IF TupleLess(version_, <<1, 0>>) THEN r
    ELSE IF i > Len(r.val.parset.phase_centers) THEN r
    ELSE PhaseCenterPointings(PhaseCenterPointing(r.val, i, version_, svc), i + 1, version_, svc)

\* the dict xst_pointing: the zenith at the middle of the fov's time window
XstPointing(index, fov, icrs, freq) ==
    IF Raised(freq) THEN freq
    ELSE [val |-> [idx |-> index,
                   center |-> [ra |-> [value |-> Float(icrs.ra), unit |-> "deg"],
                               dec |-> [value |-> Float(icrs.dec), unit |-> "deg"],
                               obs_direction_type |-> "zenith_xst"],
                   name |-> "", time |-> fov.time,
                   receiver |-> [name |-> "LaNewBa", frequency |-> freq.val]]]

RECURSIVE XstPointings(_, _, _, _)
\* for i, fov in enumerate(self.fovs), last being len(self.pointings) before
XstPointings(r, i, last, svc) ==
    IF Raised(r) THEN r
    ELSE IF i > Len(r.val.fovs) THEN r
    ELSE XstPointings(
             AppendPointing(r.val,
                            XstPointing(last + i - 1, r.val.fovs[i], svc.icrs,
                                        _get_frequency_dict(r.val.parset.output, "xst_sbList")),
                            [val |-> i - 1]),
             i + 1, last, svc)

\* the truth of a stored value
Truth(v) ==
    IF v.type = "bool" THEN v.val
    ELSE IF v.type = "str" THEN v.val # ""
    ELSE IF v.type = "int" THEN v.val # 0
    ELSE IF v.type = "list" THEN Len(v.val) > 0
    ELSE TRUE

\* if self.output.get("xst_userfile", False): json_entry.add_xst_pointings()
add_xst_pointings(r, svc) ==
    IF Raised(r) THEN r
    ELSE IF ~Truth(Get(r.val.parset.output, "xst_userfile", Typed("bool", FALSE))) THEN r
    ELSE XstPointings(r, 1, Len(r.val.pointings), svc)

\* [beam["toDo"] for beam in self.digibeams.values()]
ToDos(digibeams_) ==
    Comprehension([i \in 1..Len(digibeams_) |-> Lookup(digibeams_[i].store, "toDo")], 1)

HasTBD(todos) == \E i \in 1..Len(todos) : todos[i].type = "str" /\ todos[i].val = "TBD"

\* the position of self.digibeams[0] among the items, 0 if there is no key 0
PositionOfZero(digibeams_) ==
    IF \E i \in 1..Len(digibeams_) : digibeams_[i].idx = 0
    THEN CHOOSE i \in 1..Len(digibeams_) : digibeams_[i].idx = 0
    ELSE 0

NickelPointing(st, version_, svc, declared, todos) ==
    IF Raised(declared) THEN Failed(st, declared)
    ELSE IF ~declared.val THEN [val |-> st]
    ELSE IF Raised(todos) THEN Failed(st, todos)
    ELSE IF HasTBD(todos.val) THEN [val |-> st]
    ELSE IF PositionOfZero(st.parset.digibeams) = 0 THEN Failed(st, Raise("KeyError"))
    ELSE add_pointing(st, Len(st.pointings), "digibeams",
                      PositionOfZero(st.parset.digibeams), version_, "nickel", svc)

\* if parset_version < (1, 0): the NICKEL pointing of old parsets
add_nickel_pointing(r, version_, svc) ==
    IF Raised(r) THEN r
    ELSE IF ~TupleLess(version_, <<1, 0>>) THEN r
    ELSE NickelPointing(r.val, version_, svc, NickelDeclared(r.val.parset.output),
                        ToDos(r.val.parset.digibeams))

MiniArrayValues(fov) == [i \in 1..Len(fov.mini_arrays) |-> fov.mini_arrays[i].value]

\* for pointing in fov["pointings"]: "nickel" == pointing["receiver"]["name"]
\* -- the continue it guards continues this loop
ReadReceiverNames(pointings_) ==
    IF \E i \in 1..Len(pointings_) : "name" \notin DOMAIN pointings_[i].receiver
    THEN Raise("KeyError") ELSE [val |-> TRUE]

IsLocal(ma) == ~(ma.value.val > 96)

\* fov["mini_arrays"] = np.array(fov["mini_arrays"])[~remote_mas_in_fov_mask].tolist()
Pruned(fov) == [fov EXCEPT !.mini_arrays = SelectSeq(@, IsLocal)]

\* one pass of the loop of remove_unused_miniarrays
UnusedRemoved(fov, names) ==
    IF ~AllInts(MiniArrayValues(fov)) THEN Raise("TypeError")
    ELSE IF \A i \in 1..Len(fov.mini_arrays) : IsLocal(fov.mini_arrays[i]) THEN [val |-> fov]
    ELSE IF Raised(names) THEN names
    ELSE [val |-> Pruned(fov)]

WithFovs(st, fovs_) ==
    IF Raised(fovs_) THEN Failed(st, fovs_) ELSE [val |-> [st EXCEPT !.fovs = fovs_.val]]

\* json_entry.remove_unused_miniarrays()
remove_unused_miniarrays(r) ==
    IF Raised(r) THEN r
    ELSE WithFovs(r.val,
                  Comprehension([i \in 1..Len(r.val.fovs) |->
                                     UnusedRemoved(r.val.fovs[i],
                                                   ReadReceiverNames(r.val.fovs[i].pointings))], 1))

RECURSIVE Filled(_, _, _)
\* for fov_idx, pointing in self.pointings: fovs[fov_idx]["pointings"].append(pointing)
Filled(fovs_, pointings_, i) ==
    IF i > Len(pointings_) THEN fovs_
    ELSE Filled([fovs_ EXCEPT ![pointings_[i][1] + 1].pointings = Append(@, pointings_[i][2])],
                pointings_, i + 1)

\* _JsonEntry.data
data(st) == Merge(st.obs_metadata, [field_of_views |-> Filled(st.fovs, st.pointings, 1)])

\* json_entry = _JsonEntry(output=self.output)
NewEntry(parset_) ==
    [parset |-> parset_, obs_metadata |-> <<>>, fovs |-> <<>>, pointings |-> <<>>,
     digi_idx |-> Unbound]

WithMetadata(st, md) ==
    IF Raised(md) THEN Failed(st, md) ELSE [val |-> [st EXCEPT !.obs_metadata = md.val]]

\* return json_entry.data: the Parset as to_json leaves it, and the document
\* or the exception
Returned_(r) ==
    IF Raised(r) THEN [parset |-> r.st.parset, ret |-> Raise(r.raised)]
    ELSE [parset |-> r.val.parset, ret |-> [val |-> data(r.val)]]

ToJsonOf(parset_, version_, svc) ==
    IF Raised(version_) THEN [parset |-> parset_, ret |-> version_]
    ELSE Returned_(
        remove_unused_miniarrays(
        add_nickel_pointing(
        add_xst_pointings(
        PhaseCenterPointings(
        DigiPointings(
        FieldsOfView(
            WithMetadata(NewEntry(parset_),
                         add_observation_metadata(parset_.observation, parset_.file,
                                                  parset_.parset_user)),
            1, svc),
        1, version_.val, svc),
        1, version_.val, svc),
        svc),
        version_.val, svc)))

\* Parset.to_json(path_name=None)
to_json(parset_, svc) == ToJsonOf(parset_, version(parset_.observation), svc)

-----------------------------------------------------------------------------
(* The document builder on its own: a Parset is decoded from the lines of  *)
(* a parset file, then to_json() is called once.  Analog beams may come in *)
(* any order of their indices; a digital beam names its analog beam by     *)
(* noBeam.  Every direction is J2000, which needs no coordinate service.   *)

MaxDigiBeams == 2

StartRaw == <<"duration", "3600", "startTime", "2020-01-01T00:00:00Z">>

DirectionRaw == <<"directionType", "J2000", "angle1", "10", "angle2", "20">>

\* the indices of the AnaBeam[i] blocks, in the order of their first line
AnaOrders == {<<>>, <<0>>, <<2>>, <<0, 1>>, <<1, 0>>, <<0, 2>>, <<2, 0>>}

MaListRaws == {"[0..2]", "[95..97]"}

AnaBeamStore(ma) ==
    SetAll(EmptyStore,
           <<"target", "\"A\"">> \o StartRaw \o DirectionRaw \o
           <<"maList", ma, "antList", "[1,2]", "filter", "[3]",
             "filterTime", "[2020-01-01T00:00:00Z]">>)

AnaBeamsOf(order, ma) == [i \in 1..Len(order) |-> [idx |-> order[i], store |-> AnaBeamStore(ma)]]

DigiNoBeamRaws == {"0", "1", "2"}

DigiToDoRaws == {<<>>, <<"toDo", "nickel">>}

\* the stores of the digital beams: toDo is the same for all of them
DigiBeamStore(n, t) ==
    SetAll(EmptyStore,
           <<"target", "\"B\"">> \o StartRaw \o DirectionRaw \o
           <<"subbandList", "[200..201]", "noBeam", n>> \o t)

\* Beam[0], Beam[1], ... in this order
DigiBeamsOf(noBeams, t) ==
    [i \in 1..Len(noBeams) |-> [idx |-> i - 1, store |-> DigiBeamStore(noBeams[i], t)]]

\* Beam[0], Beam[1], ... in this order, or Beam[1] alone
DigiBeamLists ==
    UNION {{DigiBeamsOf(s, t) : s \in [1..n -> DigiNoBeamRaws], t \in DigiToDoRaws} :
              n \in 0..MaxDigiBeams}
    \cup {<<[idx |-> 1, store |-> DigiBeamStore(n, t)]>> :
              n \in DigiNoBeamRaws, t \in DigiToDoRaws}

PhaseCenterLists ==
    {<<>>,
     <<[idx |-> 0,
        store |-> SetAll(EmptyStore,
                         <<"target", "\"C\"">> \o StartRaw \o DirectionRaw \o
                         <<"subbandList", "[300]", "noBeam", "0">>)]>>}

ObservationStores ==
    {SetAll(EmptyStore,
            <<"startTime", "2020-01-01T00:00:00Z", "stopTime", "2020-01-01T01:00:00Z",
              "topic", "ES05 pulsars">> \o v) :
        v \in {<<>>, <<"parsetVersion", "1.0">>}}

OutputStores ==
    {SetAll(EmptyStore, o) :
        o \in {<<>>,
               <<"nri_channelization", "64", "nri_dumpTime", "1",
                 "nri_subbandList", "[7]", "nri_receivers", "[nickel]">>,
               <<"xst_userfile", "true", "xst_sbList", "[300]">>}}

\* the one answer of the coordinate service
Answers ==
    [altaz |-> [az |-> Deg(0), alt |-> Deg(80)],
     icrs  |-> [ra |-> Deg(10), dec |-> Deg(47)],
     body  |-> [ra |-> Deg(10), dec |-> Deg(20), az |-> Deg(180), alt |-> Deg(45)]]

InitJson ==
    /\ \E obs \in ObservationStores, o \in OutputStores, order \in AnaOrders,
          ma \in MaListRaws, digi \in DigiBeamLists, pcs \in PhaseCenterLists :
           parset = [observation |-> obs, output |-> o,
                     anabeams |-> AnaBeamsOf(order, ma), digibeams |-> digi,
                     phase_centers |-> pcs,
                     file |-> "/data/obs.parset", parset_user |-> "user"]
    /\ document = [op |-> "init"]
    /\ IdleStore /\ IdleDecode /\ IdleResolve /\ IdleCompress /\ IdlePulsar
    /\ IdleReceiver /\ IdleWriter
    /\ IdleDatabase /\ IdleEntry

ToJsonTo(r) ==
    /\ parset' = r.parset
    /\ document' = [op |-> "done", input |-> parset, ret |-> r.ret]

\* document = parset.to_json()
ToJson ==
    /\ document.op = "init"
    /\ ToJsonTo(to_json(parset, Answers))
    /\ UNCHANGED <<storeVars, decodeVars, resolveVars, compressVars, pulsarVars,
                   receiverVars, writerVars,
                   databaseVars, entryVars>>

SpecJson == InitJson /\ [][ToJson]_vars

-----------------------------------------------------------------------------
(* Claims on the built document.                                            *)

\* to_json returned a document
Built == document.op = "done" /\ ~Raised(document.ret)

FieldsOfViewBuilt == document.ret.val.field_of_views

\* the mini-arrays of the i-th analog beam, as add_field_of_view lists them
StatedMiniArrays(i) ==
    _array_to_dict_array(Lookup(document.input.anabeams[i].store, "maList")).val

HasRemote(mas) == \E j \in 1..Len(mas) : mas[j].value.val > 96

HasNickelPointing(fov) ==
    \E j \in 1..Len(fov.pointings) :
        "name" \in DOMAIN fov.pointings[j].receiver
        /\ fov.pointings[j].receiver.name = "nickel"

\* C13: in the returned document a field of view without mini-arrays above
\* 96 keeps its list; one with mini-arrays above 96 and no nickel pointing
\* loses exactly those; one with mini-arrays above 96 and a nickel pointing
\* keeps its list.
C13_MiniArrayPruning ==
    Built =>
        \A i \in 1..Len(FieldsOfViewBuilt) :
            IF ~HasRemote(StatedMiniArrays(i))
            THEN FieldsOfViewBuilt[i].mini_arrays = StatedMiniArrays(i)
            ELSE IF ~HasNickelPointing(FieldsOfViewBuilt[i])
            THEN FieldsOfViewBuilt[i].mini_arrays = SelectSeq(StatedMiniArrays(i), IsLocal)
            ELSE FieldsOfViewBuilt[i].mini_arrays = StatedMiniArrays(i)

\* the pointings of the document, each with the position of its fov
Attached ==
    {fj \in (1..Len(FieldsOfViewBuilt)) \X (1..(MaxDigiBeams + 4)) :
        fj[2] <= Len(FieldsOfViewBuilt[fj[1]].pointings)}

PointingAt(fj) == FieldsOfViewBuilt[fj[1]].pointings[fj[2]]

\* where the pointing of the i-th digital beam is attached: add_pointing
\* gives it the beam's key as idx; an XST pointing may have the same idx
AttachedOf(i) ==
    {fj \in Attached :
        /\ PointingAt(fj).idx = document.input.digibeams[i].idx
        /\ PointingAt(fj).center.obs_direction_type # "zenith_xst"}

\* f is the first position, in analog-beam order, of a fov whose idx is v
IsFirstFov(f, v) ==
    /\ v.type = "int"
    /\ document.input.anabeams[f].idx = v.val
    /\ \A g \in 1..(f - 1) : document.input.anabeams[g].idx # v.val

\* C14: in the built document the pointing of every digital beam is in the
\* pointings of exactly one field of view, the first one in analog-beam
\* order whose idx is the beam's noBeam, whatever the order of the indices.
C14_PointingInItsFov ==
    Built =>
        \A i \in 1..Len(document.input.digibeams) :
            /\ Cardinality(AttachedOf(i)) = 1
            /\ \A fj \in AttachedOf(i) :
                   /\ IsFirstFov(fj[1], document.input.digibeams[i].store["noBeam"])
                   /\ FieldsOfViewBuilt[fj[1]].idx
                          = document.input.digibeams[i].store["noBeam"].val

\* analog beams 2 then 0, and a digital beam of analog beam 0 attached to
\* the second field of view
C14_Witness ==
    /\ Built
    /\ Len(document.input.anabeams) = 2
    /\ document.input.anabeams[1].idx = 2
    /\ document.input.anabeams[2].idx = 0
    /\ \E i \in 1..Len(document.input.digibeams) :
           /\ document.input.digibeams[i].store["noBeam"].val = 0
           /\ \E fj \in AttachedOf(i) : fj[1] = 2

\* noBeam is the idx of some field of view
Matched(v) ==
    \E f \in 1..Len(document.input.anabeams) : Matches(document.input.anabeams[f].idx, v)

Unmatched(beams) == \E i \in 1..Len(beams) : ~Matched(beams[i].store["noBeam"])

\* to_json makes pointings of the phase centers from version 1.0 on
PhaseCentersUsed == ~TupleLess(version(document.input.observation).val, <<1, 0>>)

\* a beam that to_json makes a pointing of names no field of view
DanglingNoBeam ==
    \/ Unmatched(document.input.digibeams)
    \/ PhaseCentersUsed /\ Unmatched(document.input.phase_centers)

\* C15: when the noBeam of a digital beam, or of a phase center that is
\* made a pointing, is the idx of no field of view, to_json raises: no
\* document is returned, so the pointing is attached to no field of view,
\* the one at position zero included.
C15_DanglingNoBeamRaises ==
    document.op = "done" /\ DanglingNoBeam => Raised(document.ret)

\* there is a field of view at position zero, the first digital beam names
\* none, and the lookup of the position raises IndexError
C15_Witness ==
    /\ document.op = "done"
    /\ Len(document.input.anabeams) > 0
    /\ Len(document.input.digibeams) > 0
    /\ ~Matched(document.input.digibeams[1].store["noBeam"])
    /\ Raised(document.ret)
    /\ document.ret.raised = "IndexError"

-----------------------------------------------------------------------------
(* The writer: _ParsetBlock, its subclasses and ParsetUser.  A block is a  *)
(* record of its field, its index and its configuration; a configuration,  *)
(* a dict in the code, is the sequence of its items in insertion order.    *)
(* The registry PARSET_OPTIONS is imported from nenupy.observation and is  *)
(* not part of parset.py: it is modelled after section 4.7 of the          *)
(* specification (default value, required flag, optional regex syntax),    *)
(* with fields of the parsets the decoder reads.                            *)

NoSyntax == <<>>

Option(key, value, required, syntax) ==
    [key |-> key, value |-> Typed("str", value), required |-> required,
     modified |-> FALSE, syntax |-> syntax]

\* PARSET_OPTIONS[field]
PARSET_OPTIONS(field) ==
    CASE field = "Observation" ->
             <<Option("name", "", TRUE, NoSyntax),
               Option("nrAnabeams", "0", TRUE, <<"\\d+">>),
               Option("nrBeams", "0", TRUE, <<"\\d+">>),
               Option("title", "", FALSE, NoSyntax)>>
      [] field = "Anabeam" ->
             <<Option("target", "", TRUE, NoSyntax),
               Option("duration", "0s", TRUE, <<"\\d+[smh]">>),
               Option("antState", "ON", FALSE, NoSyntax)>>
      [] field = "Beam" ->
             <<Option("target", "", TRUE, NoSyntax),
               Option("noBeam", "0", TRUE, <<"\\d+">>),
               Option("duration", "0s", FALSE, <<"\\d+[smh]">>)>>
      [] field = "Output" ->
             <<Option("hd_bitMode", "16", FALSE, <<"\\d+">>)>>

\* a number on at least two digits, as in an ISO date
Pad2(n) == IF n < 10 THEN "0" \o IntToStr(n) ELSE IntToStr(n)

Pad4(n) ==
    IF n < 10 THEN "000" \o IntToStr(n)
    ELSE IF n < 100 THEN "00" \o IntToStr(n)
    ELSE IF n < 1000 THEN "0" \o IntToStr(n)
    ELSE IntToStr(n)

\* value.precision = 0; value.isot
IsotString(t) ==
    Pad4(t[1]) \o "-" \o Pad2(t[2]) \o "-" \o Pad2(t[3]) \o "T" \o
    Pad2(t[4]) \o ":" \o Pad2(t[5]) \o ":" \o Pad2(t[6])

\* what _modify_properties stores for a value; a TimeDelta is held in whole
\* seconds
Stored(value) ==
    IF value.type = "time" THEN Typed("str", IsotString(value.val) \o "Z")
    ELSE IF value.type = "timedelta" THEN Typed("str", IntToStr(value.val) \o "s")
    ELSE IF value.type = "bool" THEN Typed("str", IF value.val THEN "true" ELSE "false")
    ELSE value

\* key in self.configuration
HasKey(configuration, key) == \E i \in 1..Len(configuration) : configuration[i].key = key

\* Modify that flags every field of the configuration
Modify_FlagAll(configuration, key, value) ==
    [i \in 1..Len(configuration) |->
        IF configuration[i].key = key
        THEN [configuration[i] EXCEPT !.value = Stored(value), !.modified = TRUE]
        ELSE [configuration[i] EXCEPT !.modified = TRUE]]

\* self.configuration[key]["value"] = value;
\* self.configuration[key]["modified"] = True
Modify(configuration, key, value) ==
    [i \in 1..Len(configuration) |->
        IF configuration[i].key = key
        THEN [configuration[i] EXCEPT !.value = Stored(value), !.modified = TRUE]
        ELSE configuration[i]]

\* one pass of the loop of _modify_properties; c holds the configuration
\* and the keys warned about
ModifyProperty(c, key, value) ==
    IF HasKey(c.configuration, key)
    THEN [c EXCEPT !.configuration = Modify(@, key, value)]
    ELSE [c EXCEPT !.warnings = Append(@, key)]

RECURSIVE ModifyAll(_, _, _)
ModifyAll(c, kwargs, i) ==
    IF i > Len(kwargs) THEN c
    ELSE ModifyAll(ModifyProperty(c, kwargs[i][1], kwargs[i][2]), kwargs, i + 1)

\* _ParsetBlock._modify_properties(**kwargs), kwargs the pairs <<key, value>>
_modify_properties(configuration, kwargs) ==
    ModifyAll([configuration |-> configuration, warnings |-> <<>>], kwargs, 1)

\* str(value) of a stored value
StrOf(v) == IF v.type = "int" THEN IntToStr(v.val) ELSE v.val

\* f"{self.field}{counter}.{key}={val['value']}"
BlockLine(field, counter, option) ==
    field \o counter \o "." \o option.key \o "=" \o StrOf(option.value)

Emitted(option) == option.modified \/ option.required

RECURSIVE JoinLines(_, _)
\* sep.join(lines)
JoinLines(lines_, sep) ==
    IF lines_ = <<>> THEN ""
    ELSE IF Len(lines_) = 1 THEN lines_[1]
    ELSE lines_[1] \o sep \o JoinLines(Tail(lines_), sep)

BlockLines(field, counter, configuration) ==
    [i \in 1..Len(configuration) |-> BlockLine(field, counter, configuration[i])]

\* _ParsetBlock._write_block_list(index): index <<>> stands for None
_write_block_list(block, index) ==
    JoinLines(BlockLines(block.field,
                         IF index = <<>> THEN "" ELSE "[" \o IntToStr(index[1]) \o "]",
                         SelectSeq(block.configuration, Emitted)),
              "\n")

\* _ParsetBlock.__init__(field) then self.index = 0 and
\* self._modify_properties(**kwargs): _BeamParsetBlock.__init__
_BeamParsetBlock(field, kwargs) ==
    [field |-> field, index |-> 0,
     configuration |-> _modify_properties(PARSET_OPTIONS(field), kwargs).configuration]

\* _NumericalBeamParsetBlock(**kwargs)
_NumericalBeamParsetBlock(kwargs) == _BeamParsetBlock("Beam", kwargs)

\* _AnalogBeamParsetBlock(**kwargs)
_AnalogBeamParsetBlock(kwargs) ==
    [field |-> "Anabeam", index |-> 0,
     configuration |-> _modify_properties(PARSET_OPTIONS("Anabeam"), kwargs).configuration,
     numerical_beams |-> <<>>]

\* ParsetUser(): _ObservationParsetBlock() and _OutputParsetBlock()
ParsetUser ==
    [observation |-> [field |-> "Observation",
                      configuration |-> PARSET_OPTIONS("Observation"),
                      analog_beams |-> <<>>],
     output |-> [field |-> "Output", configuration |-> PARSET_OPTIONS("Output")]]

\* block[key] = value
SetItemOf(block, key, value) ==
    [block EXCEPT !.configuration = _modify_properties(@, <<<<key, value>>>>).configuration]

\* _propagate_index that leaves noBeam as it is
_propagate_index_None(anabeam) == anabeam

\* _AnalogBeamParsetBlock._propagate_index
_propagate_index(anabeam) ==
    [anabeam EXCEPT !.numerical_beams =
        [i \in 1..Len(@) |-> SetItemOf(@[i], "noBeam", Typed("int", anabeam.index))]]

RECURSIVE NumbeamsBefore(_, _)
\* the number of numerical beams of the first a analog beams
NumbeamsBefore(analog_beams, a) ==
    IF a = 0 THEN 0
    ELSE NumbeamsBefore(analog_beams, a - 1) + Len(analog_beams[a].numerical_beams)

\* _updates_numbeams_indices that counts within each analog beam
UpdatedNumbeams_PerAnabeam(analog_beams) ==
    [a \in 1..Len(analog_beams) |->
        [analog_beams[a] EXCEPT !.numerical_beams =
            [i \in 1..Len(@) |-> [@[i] EXCEPT !.index = i - 1]]]]

UpdatedNumbeams(analog_beams) ==
    [a \in 1..Len(analog_beams) |->
        [analog_beams[a] EXCEPT !.numerical_beams =
            [i \in 1..Len(@) |->
                [@[i] EXCEPT !.index = NumbeamsBefore(analog_beams, a - 1) + i - 1]]]]

\* ParsetUser._updates_numbeams_indices
_updates_numbeams_indices(user_) ==
    [user_ EXCEPT !.observation.analog_beams = UpdatedNumbeams(@)]

UpdatedAnabeams(analog_beams) ==
    [a \in 1..Len(analog_beams) |->
        _propagate_index([analog_beams[a] EXCEPT !.index = a - 1])]

\* ParsetUser._updates_anabeams_indices
_updates_anabeams_indices(user_) ==
    _updates_numbeams_indices([user_ EXCEPT !.observation.analog_beams = UpdatedAnabeams(@)])

\* what a call leaves: the hierarchy and None, or the exception
Done(user_) == [user |-> user_, ret |-> [val |-> None]]

\* ParsetUser.add_analog_beam(**kwargs)
add_analog_beam(user_, kwargs) ==
    Done(_updates_anabeams_indices(
             [user_ EXCEPT !.observation.analog_beams =
                 Append(@, _AnalogBeamParsetBlock(kwargs))]))

\* list[index]: a position from 1, or 0 if the index is out of range
Position(list, index) ==
    IF index >= 0 /\ index < Len(list) THEN index + 1
    ELSE IF index < 0 /\ 0 - index <= Len(list) THEN Len(list) + index + 1
    ELSE 0

Without(list, pos) == SubSeq(list, 1, pos - 1) \o SubSeq(list, pos + 1, Len(list))

\* ParsetUser.remove_analog_beam(anabeam_index)
remove_analog_beam(user_, anabeam_index) ==
    IF Position(user_.observation.analog_beams, anabeam_index) = 0
    THEN [user |-> user_, ret |-> Raise("IndexError")]
    ELSE Done(_updates_anabeams_indices(
                  [user_ EXCEPT !.observation.analog_beams =
                      Without(@, Position(@, anabeam_index))]))

\* anabeam._add_numerical_beam(**kwargs); anabeam._propagate_index()
WithNumericalBeam(anabeam, kwargs) ==
    _propagate_index([anabeam EXCEPT !.numerical_beams =
                         Append(@, _NumericalBeamParsetBlock(kwargs))])

\* ParsetUser.add_numerical_beam(anabeam_index, **kwargs)
add_numerical_beam(user_, anabeam_index, kwargs) ==
    IF Position(user_.observation.analog_beams, anabeam_index) = 0
    THEN [user |-> user_, ret |-> Raise("IndexError")]
    ELSE Done(_updates_numbeams_indices(
                  [user_ EXCEPT !.observation.analog_beams =
                      [@ EXCEPT ![Position(@, anabeam_index)] = WithNumericalBeam(@, kwargs)]]))

RECURSIVE RemoveCounted(_, _, _, _)
\* the loops of remove_numerical_beam from the a-th analog beam on, counter
\* being the number of numerical beams passed
RemoveCounted(analog_beams, a, counter, numbeam_index) ==
    IF a > Len(analog_beams) THEN analog_beams
    ELSE IF numbeam_index >= counter
            /\ numbeam_index < counter + Len(analog_beams[a].numerical_beams)
    THEN [analog_beams EXCEPT ![a].numerical_beams = Without(@, numbeam_index - counter + 1)]
    ELSE RemoveCounted(analog_beams, a + 1,
                       counter + Len(analog_beams[a].numerical_beams), numbeam_index)

\* ParsetUser.remove_numerical_beam(numbeam_index)
remove_numerical_beam(user_, numbeam_index) ==
    Done(_updates_numbeams_indices(
             [user_ EXCEPT !.observation.analog_beams =
                 RemoveCounted(@, 1, 0, numbeam_index)]))

-----------------------------------------------------------------------------
(* The beam hierarchy on its own: a ParsetUser is built, then analog and   *)
(* numerical beams are added and removed, with indices in and out of       *)
(* range.  user_call holds the last call: its arguments, the hierarchy it  *)
(* was made on and what it returned or raised.                              *)

MaxAnalogBeams == 2
MaxNumericalBeams == 2

Str(s) == Typed("str", s)

AnalogKwargs == {<<>>, <<<<"target", Str("a")>>>>}

NumericalKwargs ==
    {<<<<"target", Str("b")>>>>,
     <<<<"target", Str("c")>>, <<"noBeam", Typed("int", 7)>>>>}

\* the numerical beams of the hierarchy, analog beam after analog beam
Numbeams(user_) ==
    Concat([a \in 1..Len(user_.observation.analog_beams) |->
                user_.observation.analog_beams[a].numerical_beams])

InitWriter ==
    /\ user = ParsetUser
    /\ user_call = [op |-> "ParsetUser"]
    /\ IdleStore /\ IdleDecode /\ IdleResolve /\ IdleCompress /\ IdlePulsar
    /\ IdleReceiver /\ IdleJson
    /\ IdleDatabase /\ IdleEntry

Called(op, args, r) ==
    /\ user' = r.user
    /\ user_call' = [op |-> op, args |-> args, before |-> user, ret |-> r.ret]

\* user.add_analog_beam(**kwargs)
AddAnalogBeam ==
    /\ Len(user.observation.analog_beams) < MaxAnalogBeams
    /\ \E kwargs \in AnalogKwargs :
           Called("add_analog_beam", <<kwargs>>, add_analog_beam(user, kwargs))
    /\ UNCHANGED <<storeVars, decodeVars, resolveVars, compressVars, pulsarVars,
                   receiverVars, jsonVars,
                   databaseVars, entryVars>>

\* user.remove_analog_beam(anabeam_index)
RemoveAnalogBeam ==
    /\ \E anabeam_index \in (0 - MaxAnalogBeams - 1)..MaxAnalogBeams :
           Called("remove_analog_beam", <<anabeam_index>>,
                  remove_analog_beam(user, anabeam_index))
    /\ UNCHANGED <<storeVars, decodeVars, resolveVars, compressVars, pulsarVars,
                   receiverVars, jsonVars,
                   databaseVars, entryVars>>

\* user.add_numerical_beam(anabeam_index, **kwargs)
AddNumericalBeam ==
    /\ Len(Numbeams(user)) < MaxNumericalBeams
    /\ \E anabeam_index \in (0 - MaxAnalogBeams - 1)..MaxAnalogBeams,
          kwargs \in NumericalKwargs :
           Called("add_numerical_beam", <<anabeam_index, kwargs>>,
                  add_numerical_beam(user, anabeam_index, kwargs))
    /\ UNCHANGED <<storeVars, decodeVars, resolveVars, compressVars, pulsarVars,
                   receiverVars, jsonVars,
                   databaseVars, entryVars>>

\* user.remove_numerical_beam(numbeam_index)
RemoveNumericalBeam ==
    /\ \E numbeam_index \in (0 - 1)..MaxNumericalBeams :
           Called("remove_numerical_beam", <<numbeam_index>>,
                  remove_numerical_beam(user, numbeam_index))
    /\ UNCHANGED <<storeVars, decodeVars, resolveVars, compressVars, pulsarVars,
                   receiverVars, jsonVars,
                   databaseVars, entryVars>>

NextWriter == AddAnalogBeam \/ RemoveAnalogBeam \/ AddNumericalBeam \/ RemoveNumericalBeam

SpecWriter == InitWriter /\ [][NextWriter]_vars

\* the value of a field of a block
ValueOf(block, key) ==
    block.configuration[CHOOSE i \in 1..Len(block.configuration) :
                            block.configuration[i].key = key].value

NoBeamInt(v) == IF v.type = "int" THEN v.val ELSE 0 - 1

\* remove_numerical_beam(k) was called with 0 <= k < total
RemovedInRange ==
    /\ user_call.op = "remove_numerical_beam"
    /\ user_call.args[1] >= 0
    /\ user_call.args[1] < Len(Numbeams(user_call.before))

\* C16: remove_numerical_beam(k), 0 <= k < total, deletes the numerical
\* beam of index k and no other, leaves the beams of index below k as they
\* were, lowers the index of those above k by one, and every surviving
\* beam's noBeam is the index of an analog beam of the hierarchy.
C16_RemoveNumericalBeam ==
    RemovedInRange =>
        /\ Len(Numbeams(user)) = Len(Numbeams(user_call.before)) - 1
        /\ Numbeams(user_call.before)[user_call.args[1] + 1].index = user_call.args[1]
        /\ \A j \in 1..Len(Numbeams(user)) :
               IF j <= user_call.args[1]
               THEN Numbeams(user)[j] = Numbeams(user_call.before)[j]
               ELSE Numbeams(user)[j] =
                        [Numbeams(user_call.before)[j + 1] EXCEPT !.index = @ - 1]
        /\ \A j \in 1..Len(Numbeams(user)) :
               \E a \in 1..Len(user.observation.analog_beams) :
                   user.observation.analog_beams[a].index
                       = NoBeamInt(ValueOf(Numbeams(user)[j], "noBeam"))

\* the first of two numerical beams was removed and the second renumbered
C16_Witness ==
    /\ RemovedInRange
    /\ user_call.args[1] = 0
    /\ Len(Numbeams(user)) = 1
    /\ Numbeams(user)[1].index = 0
    /\ Numbeams(user_call.before)[2].index = 1

\* the index given to a call is out of the range of its list
OutOfRange ==
    \/ /\ user_call.op \in {"remove_analog_beam", "add_numerical_beam"}
       /\ Position(user_call.before.observation.analog_beams, user_call.args[1]) = 0
    \/ /\ user_call.op = "remove_numerical_beam"
       /\ \/ user_call.args[1] < 0
          \/ user_call.args[1] >= Len(Numbeams(user_call.before))

\* C17: after any sequence of add_analog_beam, remove_analog_beam,
\* add_numerical_beam and remove_numerical_beam, the analog beams carry 0,
\* 1, ... in list order, the numerical beams carry 0, 1, ... in the order of
\* analog beam then position, every numerical beam's noBeam is the index of
\* the analog beam that holds it, and a call with an index out of range
\* has raised or changed nothing.
C17_IndicesSequential ==
    /\ \A a \in 1..Len(user.observation.analog_beams) :
           /\ user.observation.analog_beams[a].index = a - 1
           /\ \A i \in 1..Len(user.observation.analog_beams[a].numerical_beams) :
                  NoBeamInt(ValueOf(user.observation.analog_beams[a].numerical_beams[i],
                                    "noBeam")) = a - 1
    /\ \A j \in 1..Len(Numbeams(user)) : Numbeams(user)[j].index = j - 1
    /\ user_call.op # "ParsetUser" /\ OutOfRange =>
           Raised(user_call.ret) \/ user = user_call.before

\* the first of two analog beams was removed; the numerical beam of the
\* second, built with noBeam=7, now names analog beam 0
C17_Witness ==
    /\ user_call.op = "remove_analog_beam"
    /\ user_call.args[1] = 0
    /\ Len(user_call.before.observation.analog_beams) = 2
    /\ Len(user_call.before.observation.analog_beams[2].numerical_beams) > 0
    /\ ValueOf(user_call.before.observation.analog_beams[2].numerical_beams[1], "target")
           = Str("c")
    /\ Len(user.observation.analog_beams) = 1
    /\ NoBeamInt(ValueOf(user.observation.analog_beams[1].numerical_beams[1], "noBeam")) = 0

-----------------------------------------------------------------------------
(* Fields, validation and text.                                             *)

\* ParsetUser._update_beam_numbers
_update_beam_numbers(user_) ==
    [user_ EXCEPT !.observation =
        SetItemOf(SetItemOf(@, "nrAnabeams", Str(IntToStr(Len(@.analog_beams)))),
                  "nrBeams", Str(IntToStr(Len(Numbeams(user_)))))]

\* str(anabeam) for anabeam in self.observation.analog_beams
AnalogBeamTexts(user_) ==
    [a \in 1..Len(user_.observation.analog_beams) |->
        _write_block_list(user_.observation.analog_beams[a],
                          <<user_.observation.analog_beams[a].index>>)]

\* str(numbeam) for anabeam in ... for numbeam in anabeam.numerical_beams
NumericalBeamTexts(user_) ==
    [j \in 1..Len(Numbeams(user_)) |->
        _write_block_list(Numbeams(user_)[j], <<Numbeams(user_)[j].index>>)]

\* the join of __str__, on the hierarchy with its beam numbers updated
TextOf(user_) ==
    JoinLines(<<_write_block_list(user_.observation, <<>>),
                JoinLines(AnalogBeamTexts(user_), "\n\n"),
                JoinLines(NumericalBeamTexts(user_), "\n\n"),
                _write_block_list(user_.output, <<>>)>>,
              "\n\n")

\* ParsetUser.__str__
__str__(user_) ==
    [user |-> _update_beam_numbers(user_),
     ret |-> [val |-> TextOf(_update_beam_numbers(user_))]]

RECURSIVE DictUpdate(_, _, _)
\* d.update(other) from the i-th item of other on: a key d has keeps its
\* place and takes the new value, another is appended
DictUpdate(d, other, i) ==
    IF i > Len(other) THEN d
    ELSE DictUpdate(IF HasKey(d, other[i].key)
                    THEN [j \in 1..Len(d) |->
                             IF d[j].key = other[i].key THEN other[i] ELSE d[j]]
                    ELSE Append(d, other[i]),
                    other, i + 1)

\* the configurations in the order validate merges them
BeamConfigurations(anabeam) ==
    <<anabeam.configuration>> \o
    [i \in 1..Len(anabeam.numerical_beams) |-> anabeam.numerical_beams[i].configuration]

Configurations(user_) ==
    <<user_.observation.configuration, user_.output.configuration>> \o
    Concat([a \in 1..Len(user_.observation.analog_beams) |->
                BeamConfigurations(user_.observation.analog_beams[a])])

RECURSIVE MergedFrom(_, _, _)
MergedFrom(d, configurations, i) ==
    IF i > Len(configurations) THEN d
    ELSE MergedFrom(DictUpdate(d, configurations[i], 1), configurations, i + 1)

\* all_configurations of validate
all_configurations(user_) == MergedFrom(<<>>, Configurations(user_), 1)

\* re.fullmatch(pattern, string) is not None, for the patterns of the registry
FullMatch(pattern, string) ==
    IF pattern = "\\d+" THEN IsDigit(string)
    ELSE IF pattern = "\\d+[smh]"
    THEN /\ Len(string) >= 2
         /\ Char(string, Len(string)) \in {"s", "m", "h"}
         /\ IsDigit(SubSeq(string, 1, Len(string) - 1))
    ELSE FALSE

EmptyValue(key) == [warning |-> "Empty value", key |-> key]
SyntaxError(key) == [warning |-> "Syntax error", key |-> key]

\* one pass of the loop `for key in all_configurations`: its warnings
Checked(option) ==
    IF option.syntax = NoSyntax THEN <<>>
    ELSE IF ~option.modified THEN <<>>
    ELSE (IF StrOf(option.value) = "" THEN <<EmptyValue(option.key)>> ELSE <<>>) \o
         (IF ~FullMatch(option.syntax[1], StrOf(option.value))
          THEN <<SyntaxError(option.key)>> ELSE <<>>)

Warnings(merged) == Concat([i \in 1..Len(merged) |-> Checked(merged[i])])

\* ParsetUser.validate: the hierarchy it leaves and the warnings it logs
validate(user_) ==
    [user |-> _update_beam_numbers(user_),
     ret |-> [val |-> Warnings(all_configurations(_update_beam_numbers(user_)))]]

\* the blocks of a hierarchy, each named by its place
Targets(user_) ==
    {<<"observation">>, <<"output">>}
    \cup {<<"analog", a>> : a \in 1..Len(user_.observation.analog_beams)}
    \cup UNION {{<<"numerical", a, i>> :
                    i \in 1..Len(user_.observation.analog_beams[a].numerical_beams)} :
                a \in 1..Len(user_.observation.analog_beams)}

BlockAt(user_, t) ==
    IF t[1] = "observation" THEN user_.observation
    ELSE IF t[1] = "output" THEN user_.output
    ELSE IF t[1] = "analog" THEN user_.observation.analog_beams[t[2]]
    ELSE user_.observation.analog_beams[t[2]].numerical_beams[t[3]]

WithConfiguration(user_, t, configuration) ==
    IF t[1] = "observation" THEN [user_ EXCEPT !.observation.configuration = configuration]
    ELSE IF t[1] = "output" THEN [user_ EXCEPT !.output.configuration = configuration]
    ELSE IF t[1] = "analog"
    THEN [user_ EXCEPT !.observation.analog_beams[t[2]].configuration = configuration]
    ELSE [user_ EXCEPT !.observation.analog_beams[t[2]].numerical_beams[t[3]].configuration
                           = configuration]

Modified(user_, t, c) ==
    [user |-> WithConfiguration(user_, t, c.configuration), ret |-> [val |-> c.warnings]]

\* block[key] = value, block being the one at t: _ParsetBlock.__setitem__;
\* the keys warned about are returned
SetItemAt(user_, t, key, value) ==
    Modified(user_, t, _modify_properties(BlockAt(user_, t).configuration, <<<<key, value>>>>))

-----------------------------------------------------------------------------
(* The blocks on their own: a hierarchy is built, its last numerical beam  *)
(* just added with keywords; then fields are assigned and the hierarchy is *)
(* validated and written.                                                   *)

MaxWrites == 1

\* the hierarchies the last numerical beam is added to
Hierarchies ==
    {add_analog_beam(ParsetUser, <<>>).user,
     add_numerical_beam(
         add_analog_beam(ParsetUser, <<<<"duration", Typed("timedelta", 10)>>>>).user,
         0, <<<<"target", Str("b")>>>>).user}

BlockKwargs ==
    <<<<>>,
      <<<<"target", Str("c")>>, <<"duration", Str("abc")>>>>,
      <<<<"bogus", Typed("bool", TRUE)>>, <<"toDo", Str("nickel")>>>>>>

\* the item assignments tried
Writes ==
    <<<<"duration", Str("abc")>>,
      <<"duration", Typed("timedelta", 60)>>,
      <<"title", Typed("bool", TRUE)>>,
      <<"hd_bitMode", Str("")>>,
      <<"startTime", Typed("time", <<2020, 1, 1, 0, 0, 0>>)>>>>

InitBlocks ==
    /\ \E h \in Hierarchies, k \in 1..Len(BlockKwargs) :
           /\ user = add_numerical_beam(h, 0, BlockKwargs[k]).user
           /\ user_call = [op |-> "add_numerical_beam", args |-> <<0, BlockKwargs[k]>>,
                           before |-> h,
                           ret |-> add_numerical_beam(h, 0, BlockKwargs[k]).ret,
                           writes |-> 0]
    /\ IdleStore /\ IdleDecode /\ IdleResolve /\ IdleCompress /\ IdlePulsar
    /\ IdleReceiver /\ IdleJson
    /\ IdleDatabase /\ IdleEntry

CalledOn(op, args, r, writes) ==
    /\ user' = r.user
    /\ user_call' = [op |-> op, args |-> args, before |-> user, ret |-> r.ret,
                     writes |-> writes]

\* block[key] = value
SetItemOn ==
    /\ user_call.writes < MaxWrites
    /\ \E t \in Targets(user), w \in 1..Len(Writes) :
           CalledOn("__setitem__", <<t, Writes[w][1], Writes[w][2]>>,
                    SetItemAt(user, t, Writes[w][1], Writes[w][2]),
                    user_call.writes + 1)
    /\ UNCHANGED <<storeVars, decodeVars, resolveVars, compressVars, pulsarVars,
                   receiverVars, jsonVars,
                   databaseVars, entryVars>>

\* user.validate()
Validate ==
    /\ CalledOn("validate", <<>>, validate(user), user_call.writes)
    /\ UNCHANGED <<storeVars, decodeVars, resolveVars, compressVars, pulsarVars,
                   receiverVars, jsonVars,
                   databaseVars, entryVars>>

\* str(user)
WriteText ==
    /\ CalledOn("__str__", <<>>, __str__(user), user_call.writes)
    /\ UNCHANGED <<storeVars, decodeVars, resolveVars, compressVars, pulsarVars,
                   receiverVars, jsonVars,
                   databaseVars, entryVars>>

NextBlocks == SetItemOn \/ Validate \/ WriteText

SpecBlocks == InitBlocks /\ [][NextBlocks]_vars

-----------------------------------------------------------------------------
(* Claims on the blocks.                                                    *)

ConfigurationBefore(t) == BlockAt(user_call.before, t).configuration

ConfigurationAfter(t) == BlockAt(user, t).configuration

\* the call was block[key] = value on the block at t
Assigned(t, key) ==
    /\ user_call.op = "__setitem__"
    /\ user_call.args[1] = t
    /\ user_call.args[2] = key

\* the keys of the keywords of a constructor
KeywordKeys(kwargs) == {kwargs[i][1] : i \in 1..Len(kwargs)}

\* the numerical beam the call add_numerical_beam(0, **kwargs) made
AddedBeam == user.observation.analog_beams[1].numerical_beams[
                 Len(user.observation.analog_beams[1].numerical_beams)]

\* an item assignment changes the field it names, if the block has it, and
\* nothing else
AssignmentWritesOneField ==
    user_call.op = "__setitem__" =>
        /\ Targets(user) = Targets(user_call.before)
        /\ \A t \in Targets(user) :
               /\ Len(ConfigurationAfter(t)) = Len(ConfigurationBefore(t))
               /\ \A i \in 1..Len(ConfigurationAfter(t)) :
                      IF Assigned(t, ConfigurationBefore(t)[i].key)
                      THEN ConfigurationAfter(t)[i] =
                               [ConfigurationBefore(t)[i] EXCEPT
                                    !.value = Stored(user_call.args[3]),
                                    !.modified = TRUE]
                      ELSE ConfigurationAfter(t)[i] = ConfigurationBefore(t)[i]

\* a constructor flags the fields its keywords name, and add_numerical_beam
\* the field noBeam it assigns; the other blocks keep their flags
ConstructorFlagsKeywords ==
    user_call.op = "add_numerical_beam" =>
        /\ \A i \in 1..Len(AddedBeam.configuration) :
               AddedBeam.configuration[i].modified <=>
                   \/ AddedBeam.configuration[i].key \in KeywordKeys(user_call.args[2])
                   \/ AddedBeam.configuration[i].key = "noBeam"
        /\ \A t \in Targets(user_call.before) :
               \A i \in 1..Len(ConfigurationAfter(t)) :
                   ConfigurationAfter(t)[i].modified = ConfigurationBefore(t)[i].modified

\* validate and __str__ assign Observation's nrAnabeams and nrBeams only
BeamNumbersOnly ==
    user_call.op \in {"validate", "__str__"} =>
        /\ Targets(user) = Targets(user_call.before)
        /\ \A t \in Targets(user) :
               \A i \in 1..Len(ConfigurationAfter(t)) :
                   \/ ConfigurationAfter(t)[i] = ConfigurationBefore(t)[i]
                   \/ /\ t = <<"observation">>
                      /\ ConfigurationAfter(t)[i].key \in {"nrAnabeams", "nrBeams"}
                      /\ ConfigurationAfter(t)[i].modified

RequiredOrModified(option) == option.required \/ option.modified

\* the lines a block is to be written as
LinesOf(block, counter) ==
    [i \in 1..Len(SelectSeq(block.configuration, RequiredOrModified)) |->
        block.field \o counter \o "." \o
        SelectSeq(block.configuration, RequiredOrModified)[i].key \o "=" \o
        StrOf(SelectSeq(block.configuration, RequiredOrModified)[i].value)]

Bracket(index) == "[" \o IntToStr(index) \o "]"

\* the lines of the whole hierarchy: Observation, the analog beams, the
\* numerical beams, Output
LinesOfHierarchy ==
    LinesOf(user.observation, "") \o
    Concat([a \in 1..Len(user.observation.analog_beams) |->
                LinesOf(user.observation.analog_beams[a],
                        Bracket(user.observation.analog_beams[a].index))]) \o
    Concat([j \in 1..Len(Numbeams(user)) |->
                LinesOf(Numbeams(user)[j], Bracket(Numbeams(user)[j].index))]) \o
    LinesOf(user.output, "")

NotEmpty(s) == s # ""

\* the text has one line per required or modified field, in the order of
\* the blocks and of their schema, and no other line but empty ones
TextHasEmittedFields ==
    user_call.op = "__str__" =>
        SelectSeq(Split(user_call.ret.val, "\n"), NotEmpty) = LinesOfHierarchy

TextLines == Split(user_call.ret.val, "\n")

Invalid(option) ==
    /\ option.modified
    /\ option.syntax # NoSyntax
    /\ \/ StrOf(option.value) = ""
       \/ ~FullMatch(option.syntax[1], StrOf(option.value))

WarnedKeys == {user_call.ret.val[w].key : w \in 1..Len(user_call.ret.val)}

\* C19: validate checks every field of every block: each modified field
\* with a syntax whose value is empty or does not match is warned about,
\* whatever another block holds under the same name; no other field is;
\* validate does not raise.
C19_ValidateEveryBlock ==
    user_call.op = "validate" =>
        /\ ~Raised(user_call.ret)
        /\ \A t \in Targets(user) :
               \A i \in 1..Len(ConfigurationAfter(t)) :
                   Invalid(ConfigurationAfter(t)[i]) =>
                       ConfigurationAfter(t)[i].key \in WarnedKeys
        /\ \A key \in WarnedKeys :
               \E t \in Targets(user) :
                   \E i \in 1..Len(ConfigurationAfter(t)) :
                       /\ ConfigurationAfter(t)[i].key = key
                       /\ Invalid(ConfigurationAfter(t)[i])

\* file_object.readline() until '': the lines of a text, each with its end
ReadLines(parts) ==
    [i \in 1..(Len(parts) - 1) |-> parts[i] \o "\n"] \o
    (IF parts[Len(parts)] = "" THEN <<>> ELSE <<parts[Len(parts)]>>)

RECURSIVE DecodeLines(_, _, _)
\* the loop `while line:` of _decodeParset over the lines
DecodeLines(r, lines_, i) ==
    IF Raised(r) THEN r
    ELSE IF i > Len(lines_) THEN r
    ELSE DecodeLines(DecodeLine(r.val, lines_[i]), lines_, i + 1)

\* Parset(file) for a file holding the text: what _decodeParset leaves
Decoded(text) ==
    DecodeLines([val |-> [dicoName |-> Unbound, content |-> Unbound,
                          observation |-> EmptyStore, output |-> EmptyStore,
                          anabeams |-> NoEntities, digibeams |-> NoEntities,
                          phase_centers |-> NoEntities]],
                ReadLines(Split(text, "\n")), 1)

EmittedKeys(block) ==
    {block.configuration[i].key :
         i \in {j \in 1..Len(block.configuration) :
                    RequiredOrModified(block.configuration[j])}}

\* the decoded entities are those of the hierarchy, each with the keys of
\* its block
SameEntities(d) ==
    /\ EmittedKeys(user.observation) \subseteq DOMAIN d.observation
    /\ EmittedKeys(user.output) \subseteq DOMAIN d.output
    /\ DOMAIN d.anabeams =
           {user.observation.analog_beams[a].index :
                a \in 1..Len(user.observation.analog_beams)}
    /\ \A a \in 1..Len(user.observation.analog_beams) :
           EmittedKeys(user.observation.analog_beams[a])
               \subseteq DOMAIN d.anabeams[user.observation.analog_beams[a].index]
    /\ DOMAIN d.digibeams = {Numbeams(user)[j].index : j \in 1..Len(Numbeams(user))}
    /\ \A j \in 1..Len(Numbeams(user)) :
           EmittedKeys(Numbeams(user)[j]) \subseteq DOMAIN d.digibeams[Numbeams(user)[j].index]

\* C20: the text of a hierarchy, read by the decoder, gives the Observation
\* and Output entities, one analog beam entity per analog beam and one
\* numerical beam entity per numerical beam, each under the index of its
\* block and with every key written for it.
C20_TextDecodesBack ==
    user_call.op = "__str__" =>
        /\ ~Raised(Decoded(user_call.ret.val))
        /\ SameEntities(Decoded(user_call.ret.val).val)

-----------------------------------------------------------------------------
(* The resolver and the store it reads *)

\* C22: resolving the center of an entity leaves its property store as it
\* was: the same keys with the same values, the directionType entry
\* included, and no key added.
C22_ResolverLeavesStore ==
    center.op = "done" => property = center.input

-----------------------------------------------------------------------------
(* A value of the property store written by the writer and read again: the *)
(* store holds one field; its value is given to a block of the writer, the *)
(* text the block holds for it is set in the store under the same key.     *)

\* re.match(r"(?P<value>\d+)(?P<unit>[smh])", string): the two groups, or
\* None, which has no group (AttributeError)
DurationMatch(string, digits) ==
    IF digits # "" /\ Char(string, Len(digits) + 1) \in {"s", "m", "h"}
    THEN [val |-> [value |-> digits, unit |-> Char(string, Len(digits) + 1)]]
    ELSE Raise("AttributeError")

to_seconds(unit) == CASE unit = "s" -> 1 [] unit = "m" -> 60 [] unit = "h" -> 3600

\* value * conversion_factor, in a TimeDelta
SecondsOf(match) ==
    IF Raised(match) THEN match
    ELSE [val |-> Typed("timedelta", DecVal(match.val.value) * to_seconds(match.val.unit))]

\* _BeamParsetBlock._get_duration of a block whose 'duration' is v; re.match
\* takes a string only (TypeError)
_get_duration(v) ==
    IF v.type # "str" THEN Raise("TypeError")
    ELSE SecondsOf(DurationMatch(v.val, DigitRun(v.val, 1)))

\* the duration of an entity as a TimeDelta: a number is a number of
\* seconds, TimeDelta(property['duration'], format='sec'); a text is read
\* by _get_duration
DurationOf(v) ==
    IF v.type = "int" THEN [val |-> Typed("timedelta", v.val)] ELSE _get_duration(v)

\* the value given to the writer for a field of the store
GivenToWriter(key, v) == IF key = "duration" THEN DurationOf(v) ELSE [val |-> v]

\* block[key] = value, then f"{val['value']}": the text the writer emits
WrittenText(given) == IF Raised(given) THEN given ELSE [val |-> StrOf(Stored(given.val))]

DurationRaws == {n \o unit : n \in {"0", "1", "5", "60", "90", "120", "3600"}, unit \in {"s", "m", "h", ""}}

TimeRaws ==
    {"2020-01-01T00:00:00Z", "2020-01-01T00:00:00", "2021-12-31 23:59:59",
     "2022-02-03T04:05:06Z", "1999-10-11T12:13:14", "2020-01-01T00:00"}

BoolRaws == {"on", "off", "Enable", "disable", "TRUE", "false", "true", "False"}

RoundTripData ==
    {<<"duration", d>> : d \in DurationRaws}
    \cup {<<key, t>> : key \in {"startTime", "stopTime"}, t \in TimeRaws}
    \cup {<<key, b>> : key \in {"xst_userfile", "hd_receivers", "antState"}, b \in BoolRaws}

InitRoundTrip ==
    /\ \E pair \in RoundTripData :
           /\ mapping = __init__(pair)
           /\ call = [op |-> "init", data |-> pair]
    /\ IdleDecode /\ IdleResolve /\ IdleCompress /\ IdlePulsar
    /\ IdleReceiver /\ IdleJson /\ IdleWriter
    /\ IdleDatabase /\ IdleEntry

\* store[key] = text, text being what the writer emits for store[key]
WriteBackTo(key, text, r) ==
    /\ mapping' = IF Raised(r) THEN mapping ELSE r.val
    /\ call' = [op |-> "write back", key |-> key, text |-> text,
                raised |-> Raised(r), before |-> mapping]

WrittenBack(key, text) ==
    WriteBackTo(key, text, IF Raised(text) THEN text ELSE __setitem__(mapping, key, text.val))

WriteBack ==
    /\ call.op = "init"
    /\ \E key \in DOMAIN mapping :
         WrittenBack(key, WrittenText(GivenToWriter(key, mapping[key])))
    /\ UNCHANGED <<decodeVars, resolveVars, compressVars, pulsarVars,
                   receiverVars, jsonVars, writerVars,
                   databaseVars, entryVars>>

SpecRoundTrip == InitRoundTrip /\ [][WriteBack]_vars

\* the same type and the same value
SameTyped(a, b) == a.type = b.type /\ a.val = b.val

\* the field is a boolean, a timestamp or a duration
RoundTripField(key, v) == v.type \in {"bool", "time"} \/ key = "duration"

\* C21: a boolean, a duration or a timestamp that the property store holds,
\* written with the writer's rules ('true'/'false', whole seconds followed
\* by 's', ISO timestamp to the second followed by 'Z') and set again in the
\* store under the same key, gives the typed value the store held.
C21_ValueRoundTrip ==
    (/\ call.op = "write back"
     /\ RoundTripField(call.key, call.before[call.key]))
    => /\ ~call.raised
       /\ DOMAIN mapping = DOMAIN call.before
       /\ SameTyped(mapping[call.key], call.before[call.key])

-----------------------------------------------------------------------------
(* Parset.add_to_database: the parset is registered, then its rows are     *)
(* submitted one call at a time; the data base answers each call by        *)
(* accepting it or by raising one of its two exceptions.                   *)

DataBaseAnswers == {"ok", "DuplicateParsetEntry", "UserNameNotFound"}

\* {**a, **b}
DictMerge(a, b) == [k \in DOMAIN a \cup DOMAIN b |-> IF k \in DOMAIN b THEN b[k] ELSE a[k]]

\* where the body goes on once the loops have no beam left at position pos
RECURSIVE Position_(_, _)
Position_(parset_, pos) ==
    IF pos.at = "anabeams" /\ pos.i > Len(parset_.anabeams)
    THEN Position_(parset_, [at |-> "digibeams", i |-> 1])
    ELSE IF pos.at = "digibeams" /\ pos.i > Len(parset_.digibeams)
    THEN [at |-> "done"]
    ELSE pos

\* an exception that no handler catches leaves add_to_database
Propagated(answer) == [at |-> "raised", exc |-> answer]

\* AfterRegistration that goes on after a DuplicateParsetEntry
AfterRegistration_GoesOn(answer) ==
    IF answer \in {"ok", "DuplicateParsetEntry"} THEN [at |-> "observation"]
    ELSE Propagated(answer)

\* try: parsetDB.parset = self.parset; except DuplicateParsetEntry: return
AfterRegistration(answer) ==
    IF answer = "ok" THEN [at |-> "observation"]
    ELSE IF answer = "DuplicateParsetEntry" THEN [at |-> "returned"]
    ELSE Propagated(answer)

\* try: parsetDB.add_row(...); except UserNameNotFound: return
AfterObservationRow(parset_, answer) ==
    IF answer = "ok" THEN Position_(parset_, [at |-> "anabeams", i |-> 1])
    ELSE IF answer = "UserNameNotFound" THEN [at |-> "returned"]
    ELSE Propagated(answer)

\* parsetDB.add_row(...) in a loop, outside any try
AfterBeamRow(parset_, pos, answer) ==
    IF answer = "ok" THEN Position_(parset_, [pos EXCEPT !.i = @ + 1])
    ELSE Propagated(answer)

\* parsetDB.add_row(row, desc=desc) and the answer to it
Submitted(db, row, desc, answer) ==
    [db EXCEPT !.rows = Append(@, [row |-> row, desc |-> desc, answer |-> answer])]

DatabaseParsets ==
    {[observation |-> obs, output |-> o,
      anabeams |-> AnaBeamsOf(order, "[0..2]"),
      digibeams |-> DigiBeamsOf([i \in 1..n |-> "0"], <<>>),
      phase_centers |-> <<>>,
      file |-> "/data/obs.parset", parset_user |-> "user"] :
        obs \in ObservationStores, o \in OutputStores,
        order \in {<<>>, <<0>>, <<1, 0>>}, n \in 0..MaxDigiBeams}

InitDatabase ==
    /\ parset \in DatabaseParsets
    /\ document = [op |-> "idle"]
    /\ data_base = [op |-> "add_to_database", self |-> parset,
                    registered |-> <<>>, rows |-> <<>>]
    /\ db_pc = [at |-> "start"]
    /\ IdleStore /\ IdleDecode /\ IdleResolve /\ IdleCompress /\ IdlePulsar
    /\ IdleReceiver /\ IdleWriter /\ IdleEntry

\* parsetDB.parset = self.parset
Register ==
    /\ db_pc.at = "start"
    /\ \E answer \in DataBaseAnswers :
         /\ data_base' = [data_base EXCEPT
                            !.registered = Append(@, [parset |-> parset.file,
                                                      answer |-> answer])]
         /\ db_pc' = AfterRegistration(answer)
    /\ UNCHANGED <<storeVars, decodeVars, resolveVars, compressVars, pulsarVars,
                   receiverVars, jsonVars, writerVars, entryVars>>

\* parsetDB.add_row({**self.observation, **self.output}, desc='observation')
AddObservationRow ==
    /\ db_pc.at = "observation"
    /\ \E answer \in DataBaseAnswers :
         /\ data_base' = Submitted(data_base,
                                   DictMerge(parset.observation, parset.output),
                                   "observation", answer)
         /\ db_pc' = AfterObservationRow(parset, answer)
    /\ UNCHANGED <<storeVars, decodeVars, resolveVars, compressVars, pulsarVars,
                   receiverVars, jsonVars, writerVars, entryVars>>

\* parsetDB.add_row(self.anabeams[anaIdx], desc='anabeam')
AddAnabeamRow ==
    /\ db_pc.at = "anabeams"
    /\ \E answer \in DataBaseAnswers :
         /\ data_base' = Submitted(data_base, parset.anabeams[db_pc.i].store,
                                   "anabeam", answer)
         /\ db_pc' = AfterBeamRow(parset, db_pc, answer)
    /\ UNCHANGED <<storeVars, decodeVars, resolveVars, compressVars, pulsarVars,
                   receiverVars, jsonVars, writerVars, entryVars>>

\* parsetDB.add_row(self.digibeams[digiIdx], desc='digibeam')
AddDigibeamRow ==
    /\ db_pc.at = "digibeams"
    /\ \E answer \in DataBaseAnswers :
         /\ data_base' = Submitted(data_base, parset.digibeams[db_pc.i].store,
                                   "digibeam", answer)
         /\ db_pc' = AfterBeamRow(parset, db_pc, answer)
    /\ UNCHANGED <<storeVars, decodeVars, resolveVars, compressVars, pulsarVars,
                   receiverVars, jsonVars, writerVars, entryVars>>

NextDatabase == Register \/ AddObservationRow \/ AddAnabeamRow \/ AddDigibeamRow

SpecDatabase == InitDatabase /\ [][NextDatabase]_vars

Rank(desc) == CASE desc = "observation" -> 1 [] desc = "anabeam" -> 2 [] desc = "digibeam" -> 3

\* the rows come after an accepted registration, the observation row first
\* and once, the analog beams before the numerical beams
RowsInOrder ==
    /\ data_base.rows # <<>> =>
           /\ Len(data_base.registered) = 1 /\ data_base.registered[1].answer = "ok"
           /\ data_base.rows[1].desc = "observation"
           /\ data_base.rows[1].row = DictMerge(parset.observation, parset.output)
    /\ \A i, j \in 1..Len(data_base.rows) :
           i < j => /\ Rank(data_base.rows[i].desc) <= Rank(data_base.rows[j].desc)
                    /\ data_base.rows[j].desc # "observation"

\* all the rows of a parset: one per analog beam, then one per numerical beam
AllRows ==
    /\ Len(data_base.rows) = 1 + Len(parset.anabeams) + Len(parset.digibeams)
    /\ \A i \in 1..Len(parset.anabeams) :
           /\ data_base.rows[1 + i].desc = "anabeam"
           /\ data_base.rows[1 + i].row = parset.anabeams[i].store
    /\ \A i \in 1..Len(parset.digibeams) :
           /\ data_base.rows[1 + Len(parset.anabeams) + i].desc = "digibeam"
           /\ data_base.rows[1 + Len(parset.anabeams) + i].row = parset.digibeams[i].store

DuplicateAtRegistration ==
    Len(data_base.registered) = 1 /\ data_base.registered[1].answer = "DuplicateParsetEntry"

UnknownSubmitterOnObservation ==
    Len(data_base.rows) >= 1 /\ data_base.rows[1].answer = "UserNameNotFound"

\* C23: add_to_database registers the parset, then submits the merged
\* observation and output row, one row per analog beam and one row per
\* numerical beam, in this order. A duplicate entry raised by the
\* registration ends the call with no row submitted, an unknown submitter
\* raised for the observation row ends it with no beam row submitted; both
\* end it without an exception and with the Parset as it was.
C23_DatabaseRows ==
    /\ db_pc.at # "idle" => RowsInOrder
    /\ db_pc.at = "done" => AllRows
    /\ DuplicateAtRegistration =>
           /\ db_pc.at = "returned"
           /\ data_base.rows = <<>>
           /\ parset = data_base.self
    /\ UnknownSubmitterOnObservation =>
           /\ db_pc.at = "returned"
           /\ Len(data_base.rows) = 1
           /\ parset = data_base.self

\* C23 witness: a parset with analog and numerical beams whose observation
\* row was refused for an unknown submitter
C23_Witness ==
    /\ UnknownSubmitterOnObservation
    /\ db_pc.at = "returned"
    /\ Len(parset.anabeams) > 0 /\ Len(parset.digibeams) > 0

-----------------------------------------------------------------------------
(* The NICKEL pointing that to_json adds for old parsets *)

\* the beam declares the imaging mode, in any letter case
DeclaresTbd(store) ==
    /\ "toDo" \in DOMAIN store
    /\ store["toDo"].type = "str"
    /\ Lower(store["toDo"].val) = "tbd"

NickelEnabled ==
    /\ ~Raised(NickelDeclared(document.input.output))
    /\ NickelDeclared(document.input.output).val

OldVersion == TupleLess(version(document.input.observation).val, <<1, 0>>)

\* the pointings of the document made with the nickel receiver that are the
\* pointing of no numerical beam
SyntheticNickel ==
    {fj \in Attached :
        /\ "name" \in DOMAIN PointingAt(fj).receiver
        /\ PointingAt(fj).receiver.name = "nickel"
        /\ \A i \in 1..Len(document.input.digibeams) :
               PointingAt(fj).idx # document.input.digibeams[i].idx}

\* C24: for a version before 1.0, nickel among the Output's nri_receivers
\* and no numerical beam declaring 'tbd' (in any letter case), to_json
\* returns a document with exactly one pointing more of the nickel
\* receiver, in the field of view of numerical beam 0; otherwise the
\* document has no such pointing. The step raises nothing, also when a
\* numerical beam has no toDo or when there is no numerical beam 0.
C24_SyntheticNickelPointing ==
    (document.op = "done" /\ ~Unmatched(document.input.digibeams)) =>
        IF /\ OldVersion /\ NickelEnabled
           /\ \A i \in 1..Len(document.input.digibeams) :
                  ~DeclaresTbd(document.input.digibeams[i].store)
        THEN /\ Built
             /\ Cardinality(SyntheticNickel) = 1
             /\ \A fj \in SyntheticNickel :
                    \E i \in 1..Len(document.input.digibeams) :
                        /\ document.input.digibeams[i].idx = 0
                        /\ IsFirstFov(fj[1], document.input.digibeams[i].store["noBeam"])
        ELSE Built => SyntheticNickel = {}

-----------------------------------------------------------------------------
(* The tbd and dynamicspectrum handlers (SpecReceiver) *)

\* 'nickel' is among the Output's nri_receivers
NickelAmongReceivers ==
    /\ "nri_receivers" \in DOMAIN entry_output
    /\ entry_output["nri_receivers"].type = "list"
    /\ \E i \in 1..Len(entry_output["nri_receivers"].val) :
           /\ entry_output["nri_receivers"].val[i].type = "str"
           /\ entry_output["nri_receivers"].val[i].val = "nickel"

\* the document of the nickel handler seeded from the Output entity
IsNickelDocument(d) ==
    /\ d.name = "nickel"
    /\ d.channelization.value = entry_output["nri_channelization"]
    /\ d.dumptime.value = entry_output["nri_dumpTime"]
    /\ d.frequency = _get_frequency_dict(entry_output, "nri_subbandList").val

\* the document of the 'none' handler, from the beam's own subbandList
IsDefaultDocument(d) ==
    /\ d.name = "LaNewBa"
    /\ d.frequency = _get_frequency_dict(beam, "subbandList").val

\* C25: for a beam whose toDo is tbd, the receiver is what the nickel
\* handler gives (channelization, dump time and frequency ranges from the
\* Output's nri_channelization, nri_dumpTime and nri_subbandList) exactly
\* when nickel is among the Output's nri_receivers and the version is
\* before 1.0; in every other case it is what the 'none' handler gives,
\* with the frequency ranges of the beam's own subbandList.
C25_TbdHandler ==
    (setting.op = "done" /\ ToDoIs({"tbd"})) =>
        IF NickelAmongReceivers /\ TupleLess(parset_version, <<1, 0>>)
        THEN /\ setting.ret = _nickel_setting(beam, entry_output, parset_version)
             /\ ~Raised(setting.ret) => IsNickelDocument(setting.ret.val)
        ELSE /\ setting.ret = _default_setting(beam, entry_output, parset_version)
             /\ ~Raised(setting.ret) => IsDefaultDocument(setting.ret.val)

\* C25 witness: an old parset with nickel enabled, a tbd beam that has a
\* subbandList of its own, and the nickel document returned
C25_Witness ==
    /\ setting.op = "done" /\ ToDoIs({"tbd"})
    /\ NickelAmongReceivers /\ TupleLess(parset_version, <<1, 0>>)
    /\ "subbandList" \in DOMAIN beam
    /\ ~Raised(setting.ret)
    /\ setting.ret.val.name = "nickel"
    /\ setting.ret.val.frequency # _get_frequency_dict(beam, "subbandList").val

BeamParametersAre(text) ==
    /\ "parameters" \in DOMAIN beam
    /\ beam["parameters"].type = "str"
    /\ beam["parameters"].val = text

\* a 'tf' document with the given dt (ms) and df (kHz)
IsTfDocument(d, dt, df) ==
    /\ "mode" \in DOMAIN d /\ d.mode = "tf"
    /\ d.name = "undysputed"
    /\ d.dt = [value |-> dt, unit |-> "ms"]
    /\ d.df = [value |-> df, unit |-> "kHz"]

\* C26: for a beam with toDo dynamicspectrum (that has a noBeam and a
\* subbandList) the handler raises nothing; without a parameters field, or
\* with parameters that give no dt or no df, it returns a 'tf' document
\* with dt = 5.00 ms and df = 6.1 kHz; with 'TF: DF=3.05 DT=10.0 HAMM' it
\* returns those values; with 'TF: RAWRT' it returns the waveform
\* handler's document.
C26_DynamicSpectrumDefaults ==
    (/\ setting.op = "done" /\ ToDoIs({"dynamicspectrum"})
     /\ "noBeam" \in DOMAIN beam /\ "subbandList" \in DOMAIN beam)
    => /\ ~Raised(setting.ret)
       /\ IF BeamParametersAre("TF: RAWRT")
          THEN setting.ret = _waveform_setting(beam, entry_output, parset_version)
          ELSE IF BeamParametersAre("TF: DF=3.05 DT=10.0 HAMM")
          THEN IsTfDocument(setting.ret.val, ToFloat("10.0").val, ToFloat("3.05").val)
          ELSE IsTfDocument(setting.ret.val, DefaultConfig.dt.val, DefaultConfig.df.val)

-----------------------------------------------------------------------------
(* The idx of the pointings that to_json adds after the numerical beams *)

\* the pointings of the document made of the phase centers: those with
\* the target of a phase center as name (an XST pointing has the name '')
PhaseCenterPointingsBuilt ==
    {fj \in Attached :
        /\ PointingAt(fj).center.obs_direction_type # "zenith_xst"
        /\ \E i \in 1..Len(document.input.phase_centers) :
               PointingAt(fj).name = document.input.phase_centers[i].store["target"]}

\* the receiver handler of every beam returns a document
ReceiversReturned(beams) ==
    \A i \in 1..Len(beams) :
        ~Raised(ChosenSetting(beams[i].store, document.input.output,
                              version(document.input.observation).val))

\* C27: from version 1.0 on, the document has one pointing per phase
\* center, its idx above the idx of every numerical beam's pointing and
\* different from the idx of every other phase center's pointing, also
\* when the parset has phase centers and no numerical beam.
C27_PhaseCenterIndices ==
    (/\ document.op = "done" /\ PhaseCentersUsed /\ ~DanglingNoBeam
     /\ ReceiversReturned(document.input.digibeams)
     /\ ReceiversReturned(document.input.phase_centers)) =>
        /\ Built
        /\ Cardinality(PhaseCenterPointingsBuilt) = Len(document.input.phase_centers)
        /\ \A fj \in PhaseCenterPointingsBuilt :
               /\ \A i \in 1..Len(document.input.digibeams) :
                      PointingAt(fj).idx > document.input.digibeams[i].idx
               /\ \A gk \in PhaseCenterPointingsBuilt :
                      gk # fj => PointingAt(gk).idx # PointingAt(fj).idx

\* if self.output.get("xst_userfile", False)
XstEnabled == Truth(Get(document.input.output, "xst_userfile", Typed("bool", FALSE)))

\* the XST pointings of the document
XstPointingsBuilt == {fj \in Attached : PointingAt(fj).center.obs_direction_type = "zenith_xst"}

\* the pointings made of the numerical beams and of the phase centers
BeamPointingsBuilt == Attached \ XstPointingsBuilt

\* C28: when the Output's xst_userfile is true the document has exactly
\* one 'zenith_xst' pointing in each field of view, whose idx is above the
\* idx of every pointing made of a numerical beam or of a phase center and
\* above the idx of the XST pointings of the fields of view before it;
\* when the flag is false or absent the document has no such pointing.
C28_XstPointings ==
    Built =>
        IF XstEnabled
        THEN /\ \A f \in 1..Len(FieldsOfViewBuilt) :
                    Cardinality({fj \in XstPointingsBuilt : fj[1] = f}) = 1
             /\ \A fj \in XstPointingsBuilt :
                    /\ \A gk \in BeamPointingsBuilt :
                           /\ "name" \in DOMAIN PointingAt(gk).receiver
                           /\ PointingAt(gk).receiver.name # "nickel"
                           => PointingAt(fj).idx > PointingAt(gk).idx
                    /\ \A gk \in XstPointingsBuilt :
                           gk[1] < fj[1] => PointingAt(gk).idx < PointingAt(fj).idx
        ELSE XstPointingsBuilt = {}

-----------------------------------------------------------------------------
(* A _JsonEntry on its own: fields of view and pointings are added to it   *)
(* in any order, and the document is read from it any number of times.     *)
(* The entry is the record of the builder's state used by to_json.         *)

MaxCalls == 4   \* calls made on one entry

EntryParsets ==
    {[observation |-> SetAll(EmptyStore, <<"startTime", "2020-01-01T00:00:00Z",
                                           "stopTime", "2020-01-01T01:00:00Z">>),
      output |-> SetAll(EmptyStore, <<"xst_userfile", "true", "xst_sbList", "[300]">>),
      anabeams |-> AnaBeamsOf(order, "[0..2]"),
      digibeams |-> DigiBeamsOf(<<"0", "1">>, <<>>),
      phase_centers |-> <<>>,
      file |-> "/data/obs.parset", parset_user |-> "user"] :
        order \in {<<0>>, <<0, 1>>}}

InitEntry ==
    /\ \E p \in EntryParsets : entry = NewEntry(p)
    /\ entry_call = [op |-> "__init__", calls |-> 0]
    /\ IdleStore /\ IdleDecode /\ IdleResolve /\ IdleCompress /\ IdlePulsar
    /\ IdleReceiver /\ IdleJson /\ IdleWriter /\ IdleDatabase

\* fovs = self.fovs.copy(); fovs[fov_idx]["pointings"].append(pointing):
\* the copy is a new list of the same dicts, so the dicts of self.fovs get
\* the pointings
ReadData(st) == [st |-> [st EXCEPT !.fovs = Filled(@, st.pointings, 1)], ret |-> data(st)]

\* a call on the entry: the state it leaves and what it returns
EntryCalled(op, st, ret) ==
    /\ entry' = st
    /\ entry_call' = [op |-> op, ret |-> ret, before |-> entry,
                      prev |-> [op |-> entry_call.op,
                                ret |-> IF entry_call.op = "data" THEN entry_call.ret
                                        ELSE None],
                      calls |-> entry_call.calls + 1]

\* a method that returns None or raises
Method(op, r) ==
    IF Raised(r) THEN EntryCalled(op, r.st, Raise(r.raised))
    ELSE EntryCalled(op, r.val, None)

AddFieldOfView ==
    /\ entry_call.calls < MaxCalls
    /\ \E i \in 1..Len(entry.parset.anabeams) :
         Method("add_field_of_view", add_field_of_view(entry, i, Answers))
    /\ UNCHANGED <<storeVars, decodeVars, resolveVars, compressVars, pulsarVars,
                   receiverVars, jsonVars, writerVars, databaseVars>>

AddPointing ==
    /\ entry_call.calls < MaxCalls
    /\ \E i \in 1..Len(entry.parset.digibeams) :
         Method("add_pointing",
                add_pointing(entry, entry.parset.digibeams[i].idx, "digibeams", i,
                             <<0>>, "auto", Answers))
    /\ UNCHANGED <<storeVars, decodeVars, resolveVars, compressVars, pulsarVars,
                   receiverVars, jsonVars, writerVars, databaseVars>>

AddXstPointings ==
    /\ entry_call.calls < MaxCalls
    /\ Method("add_xst_pointings",
              XstPointings([val |-> entry], 1, Len(entry.pointings), Answers))
    /\ UNCHANGED <<storeVars, decodeVars, resolveVars, compressVars, pulsarVars,
                   receiverVars, jsonVars, writerVars, databaseVars>>

\* json_entry.data
Data ==
    /\ entry_call.calls < MaxCalls
    /\ EntryCalled("data", ReadData(entry).st, ReadData(entry).ret)
    /\ UNCHANGED <<storeVars, decodeVars, resolveVars, compressVars, pulsarVars,
                   receiverVars, jsonVars, writerVars, databaseVars>>

NextEntry == AddFieldOfView \/ AddPointing \/ AddXstPointings \/ Data

SpecEntry == InitEntry /\ [][NextEntry]_vars

\* the fields of view as add_field_of_view makes them, without pointings
Emptied(fovs_) == [i \in 1..Len(fovs_) |-> [fovs_[i] EXCEPT !.pointings = <<>>]]

\* C29: reading the document of an entry leaves the entry as it was; the
\* document lists, in each field of view, every pointing attached to it
\* exactly once; and a document read right after another one equals it.
C29_DataIdempotent ==
    entry_call.op = "data" =>
        /\ entry = entry_call.before
        /\ entry_call.ret.field_of_views
               = Filled(Emptied(entry_call.before.fovs), entry_call.before.pointings, 1)
        /\ entry_call.prev.op = "data" => entry_call.ret = entry_call.prev.ret

-----------------------------------------------------------------------------
(* Parset.version on the Observation store, for parsetVersion values made  *)
(* of dot-separated digit groups.                                          *)

MaxGroups == 3   \* digit groups in one parsetVersion value

\* the digit groups drawn, with the integer each one writes
GroupValue == [g \in {"0", "1", "2", "10"} |->
                  IF g = "0" THEN 0 ELSE IF g = "1" THEN 1 ELSE IF g = "2" THEN 2 ELSE 10]

\* no parsetVersion (<<>>), or its groups
VersionGroups == {<<>>} \cup UNION {[1..n -> DOMAIN GroupValue] : n \in 1..MaxGroups}

\* the Observation store of a parset with these groups as parsetVersion
ObservationOf(groups) ==
    IF groups = <<>> THEN __init__(<<"name", "obs">>)
    ELSE __init__(<<"parsetVersion", Join(groups, ".")>>)

InitVersion ==
    /\ \E groups \in VersionGroups :
           /\ mapping = ObservationOf(groups)
           /\ call = [op |-> "init", groups |-> groups]
    /\ IdleDecode /\ IdleResolve /\ IdleCompress /\ IdlePulsar
    /\ IdleReceiver /\ IdleJson /\ IdleWriter
    /\ IdleDatabase /\ IdleEntry

\* parset.version, the store being parset.observation
ReadVersion ==
    /\ call.op = "init"
    /\ call' = [op |-> "version", groups |-> call.groups, ret |-> version(mapping)]
    /\ UNCHANGED <<mapping, decodeVars, resolveVars, compressVars, pulsarVars,
                   receiverVars, jsonVars, writerVars,
                   databaseVars, entryVars>>

SpecVersion == InitVersion /\ [][ReadVersion]_vars

\* the tuple of integers that the groups write
GroupTuple(groups) == [i \in 1..Len(groups) |-> GroupValue[groups[i]]]

\* C30: for every parsetVersion made of dot-separated digit groups, a
\* single group included, reading the version does not raise and gives the
\* tuple of the groups' integers; without parsetVersion it gives (0,),
\* which is below (1, 0).
C30_VersionDefined ==
    call.op = "version" =>
        /\ ~Raised(call.ret)
        /\ call.ret.val = IF call.groups = <<>> THEN <<0>> ELSE GroupTuple(call.groups)
        /\ call.groups = <<>> => TupleLess(call.ret.val, <<1, 0>>)

====
